---- MODULE Spec2Model ----
(***************************************************************************)
(* Replay-and-trigger simulation engine of the commodity price-alert       *)
(* service: SimulationManager (start / status / stop / reset), the         *)
(* producer/consumer pipeline of runSimulation, and the alert ledger       *)
(* (AlertService.ListAlerts / TriggerAlert / ResetAlerts).                 *)
(*                                                                         *)
(* Prices are binary floating-point numbers [num, den] (den a power of     *)
(* two) with a significand of MantissaBits bits, rounded to nearest, ties  *)
(* to even, after every operation as float64 is; the exponent is not       *)
(* bounded, and negative prices, infinities and NaN are left out.          *)
(* Timestamps (started_at, created_at, updated_at) and the free-text notes *)
(* are left out; last_triggered_at is a logical clock.                     *)
(***************************************************************************)
EXTENDS Integers, Sequences, FiniteSets, TLC

(***************************************************************************)
(* Bounds                                                                  *)
(***************************************************************************)
\* number of Start requests that may be accepted
MaxRuns == 2
\* number of date groups the data source holds for 2024
NumDates == 2
\* number of Start requests that may be accepted next to ledger requests
MaxLedgerRuns == 1
\* number of manual POST /alerts/{id}/trigger requests that change the ledger
MaxManual == 1
\* number of POST /simulation/reset requests that change the ledger
MaxResets == 1
\* width of the significand of the floating-point format (53 in float64,
\* scaled down)
MantissaBits == 6
\* number of rows handed to a pure function
MaxLen == 3
\* number of Start requests that may be accepted when every request input is tried
MaxStartRuns == 1
\* number of date groups of the data source under the fair specification
LiveDates == 3
\* number of POST /alerts requests that create an alert
MaxCreates == 1

(***************************************************************************)
(* Data source: market_data rows for 2024 corn, ordered by date, location  *)
(***************************************************************************)
\* an optional price (*float64): <<>> is nil, <<v>> is a present value
Nil == <<>>
Some(v) == <<v>>

Row(d, lo, hi, ml, mh) ==
    [date |-> d, low |-> lo, high |-> hi, mostly_low |-> ml, mostly_high |-> mh]

\* the rows the data source can return, in its ORDER BY report_date, location
AllRows ==
    << Row("2024-01-02", 20, 24, Some(29), Some(31)),
       Row("2024-01-02", 28, 32, Nil, Nil),
       Row("2024-01-03", 26, 29, Some(1), Nil),
       Row("2024-01-03", 27, 30, Nil, Some(1)),
       Row("2024-01-04", 25, 27, Nil, Nil),
       Row("2024-01-05", 24, 26, Nil, Nil) >>

AllDates == << "2024-01-02", "2024-01-03", "2024-01-04", "2024-01-05" >>

\* the rows of the first n dates
MarketDataOf(n) ==
    SelectSeq(AllRows, LAMBDA r : \E i \in 1..n : i <= Len(AllDates) /\ AllDates[i] = r.date)

\* the market_data table: the rows of the first NumDates dates
MarketData == MarketDataOf(NumDates)

(***************************************************************************)
(* load2024Data: group rows by date in first-seen order                    *)
(***************************************************************************)
\* the grouping with a new date put in front of the dates seen so far
RECURSIVE GroupRows_NewestFirst(_, _)
GroupRows_NewestFirst(rows, groups) ==
    IF rows = <<>> THEN groups
    ELSE LET msg == Head(rows)
             at  == {i \in 1..Len(groups) : groups[i].date = msg.date}
         IN  IF at = {}
             THEN GroupRows_NewestFirst(Tail(rows),
                                        <<[date |-> msg.date, rows |-> <<msg>>]>> \o groups)
             ELSE LET i == CHOOSE j \in at : TRUE
                  IN  GroupRows_NewestFirst(Tail(rows),
                                            [groups EXCEPT ![i].rows = Append(@, msg)])

\* the grouping that compares a row's date with the previous row's group only
RECURSIVE GroupRows_AdjacentOnly(_, _)
GroupRows_AdjacentOnly(rows, groups) ==
    IF rows = <<>> THEN groups
    ELSE LET msg == Head(rows)
             n   == Len(groups)
         IN  IF n = 0 \/ groups[n].date # msg.date
             THEN GroupRows_AdjacentOnly(Tail(rows),
                                         Append(groups, [date |-> msg.date, rows |-> <<msg>>]))
             ELSE GroupRows_AdjacentOnly(Tail(rows),
                                         [groups EXCEPT ![n].rows = Append(@, msg)])

RECURSIVE GroupRows(_, _)
GroupRows(rows, groups) ==
    IF rows = <<>> THEN groups
    ELSE LET msg == Head(rows)
             at  == {i \in 1..Len(groups) : groups[i].date = msg.date}
         IN  IF at = {}
             THEN GroupRows(Tail(rows), Append(groups, [date |-> msg.date, rows |-> <<msg>>]))
             ELSE LET i == CHOOSE j \in at : TRUE
                  IN  GroupRows(Tail(rows),
                                [groups EXCEPT ![i].rows = Append(@, msg)])

load2024Data(rows) == [groups |-> GroupRows(rows, <<>>), totalRows |-> Len(rows)]

(***************************************************************************)
(* Floating-point arithmetic                                               *)
(***************************************************************************)
RECURSIVE Pow2(_)
Pow2(k) == IF k = 0 THEN 1 ELSE 2 * Pow2(k - 1)

\* n/d in lowest terms, for d a power of two
RECURSIVE Norm(_, _)
Norm(n, d) ==
    IF d > 1 /\ n % 2 = 0 THEN Norm(n \div 2, d \div 2) ELSE [num |-> n, den |-> d]

\* n/d rounded to an integer, ties to even
RoundHalfEven(n, d) ==
    LET q == n \div d
        r == n % d
    IN  IF 2 * r < d THEN q
        ELSE IF 2 * r > d THEN q + 1
        ELSE IF q % 2 = 0 THEN q ELSE q + 1

\* the floating-point number nearest to n/d (n >= 0, d > 0)
RECURSIVE Fl(_, _)
Fl(n, d) ==
    IF n = 0 THEN [num |-> 0, den |-> 1]
    ELSE IF n < Pow2(MantissaBits - 1) * d
    THEN LET h == Fl(2 * n, d) IN Norm(h.num, 2 * h.den)
    ELSE IF n >= Pow2(MantissaBits) * d
    THEN LET h == Fl(n, 2 * d) IN Norm(2 * h.num, h.den)
    ELSE [num |-> RoundHalfEven(n, d), den |-> 1]

\* a + b and a / k (k a positive integer) in floating point
FlAdd(a, b) == Fl(a.num * b.den + b.num * a.den, a.den * b.den)
FlDiv(a, k) == Fl(a.num, a.den * k)

(***************************************************************************)
(* computeRepresentativePrice: mean of the per-row mid prices              *)
(***************************************************************************)
\* the mid price of low and high, whatever the mostly prices are
RowMid_LowHighOnly(row) ==
    FlDiv(FlAdd(Fl(row.low, 1), Fl(row.high, 1)), 2)

\* the mid price of one row (lines 360-364)
RowMid(row) ==
    IF row.mostly_low # Nil /\ row.mostly_high # Nil
    THEN FlDiv(FlAdd(Fl(row.mostly_low[1], 1), Fl(row.mostly_high[1], 1)), 2)
    ELSE FlDiv(FlAdd(Fl(row.low, 1), Fl(row.high, 1)), 2)

\* the loop with total = mid in place of total += mid
RECURSIVE SumMid_Overwrite(_, _)
SumMid_Overwrite(rows, total) ==
    IF rows = <<>> THEN total
    ELSE SumMid_Overwrite(Tail(rows), RowMid(Head(rows)))

\* the loop of lines 358-365: total += mid, row by row
RECURSIVE SumMid(_, _)
SumMid(rows, total) ==
    IF rows = <<>> THEN total
    ELSE SumMid(Tail(rows), FlAdd(total, RowMid(Head(rows))))

computeRepresentativePrice(rows) ==
    IF Len(rows) = 0 THEN [num |-> 0, den |-> 1]
    ELSE FlDiv(SumMid(rows, [num |-> 0, den |-> 1]), Len(rows))

\* price >= threshold and price <= threshold (den > 0)
PriceGeq(p, thr) == p.num >= thr * p.den
PriceLeq(p, thr) == p.num <= thr * p.den

\* shouldTrigger with strict comparisons (> and < in place of >= and <=)
shouldTrigger_Strict(condition, threshold, price) ==
    IF condition = "above" /\ ~PriceLeq(price, threshold) THEN TRUE
    ELSE IF condition = "below" /\ ~PriceGeq(price, threshold) THEN TRUE
    ELSE FALSE

\* shouldTrigger with a plain else for the second branch: every condition
\* other than "above" is taken as "below"
shouldTrigger_ElseBelow(condition, threshold, price) ==
    IF condition = "above" /\ PriceGeq(price, threshold) THEN TRUE
    ELSE IF condition # "above" /\ PriceLeq(price, threshold) THEN TRUE
    ELSE FALSE

\* the trigger decision of checkAndTriggerAlerts
shouldTrigger(condition, threshold, price) ==
    IF condition = "above" /\ PriceGeq(price, threshold) THEN TRUE
    ELSE IF condition = "below" /\ PriceLeq(price, threshold) THEN TRUE
    ELSE FALSE

(***************************************************************************)
(* Users and the alert ledger                                              *)
(***************************************************************************)
\* users table: id -> client_id (all active)
UserClient == (1 :> 1) @@ (2 :> 1) @@ (3 :> 2)

\* strconv.Atoi on the strings a request can carry
IntOf == [s \in {"-1", "0", "1", "3", "5", "9", "10", "100", "10000", "20000"} |->
            CASE s = "-1" -> 0 - 1 [] s = "0" -> 0 [] s = "1" -> 1 [] s = "3" -> 3
              [] s = "5" -> 5 [] s = "9" -> 9 [] s = "10" -> 10 [] s = "100" -> 100
              [] s = "10000" -> 10000 [] s = "20000" -> 20000]
Atoi(s) == IF s \in DOMAIN IntOf THEN [err |-> FALSE, v |-> IntOf[s]]
           ELSE [err |-> TRUE, v |-> 0]

\* the user_id values a request carries (query parameter or X-User-ID header)
UserInputs == {"", "abc", "1", "3", "9"}
\* the user_id values of the Start requests of the replay specification
RunUsers == {"", "abc", "9", "1"}
\* the users of the two tenants
LedgerUsers == {"1", "3"}
\* the speed query parameter values a Start request carries
SpeedInputs == {"", "abc", "-1", "0", "5", "10", "100", "10000", "20000"}
\* the speed values of the Start requests of the replay specification
RunSpeeds == {""}
\* what the data source returns to load2024Data: an error or the rows
LoadInputs == { [err |-> TRUE, rows |-> <<>>],
                [err |-> FALSE, rows |-> <<>>],
                [err |-> FALSE, rows |-> MarketData] }
\* the data source of the fair specification: LiveDates dates, no failure
LiveLoads == { [err |-> FALSE, rows |-> MarketDataOf(LiveDates)] }
\* the user of the Start requests of the fair specification
LiveUsers == {"1"}

Alert(i, c, u, com, cond, thr, st, n) ==
    [id |-> i, client_id |-> c, user_id |-> u, commodity |-> com,
     condition |-> cond, threshold |-> thr, status |-> st,
     triggered_count |-> n, last_triggered_at |-> 0]

\* price_alerts rows at start-up; the id is the position in the sequence
SeedAlerts ==
    << Alert(1, 1, 1, "CORN",  "below", 28, "active", 0),
       Alert(2, 1, 1, "WHEAT", "below", 40, "active", 0),
       Alert(3, 1, 2, "CORN",  "above", 27, "active", 0),
       Alert(4, 2, 3, "CORN",  "below", 40, "triggered", 1),
       Alert(5, 1, 1, "CORN",  "below", 40, "paused", 0),
       Alert(6, 1, 1, "CORN",  "above", 40, "active", 0) >>


\* ListAlerts: the client's live alerts with the given status and commodity
\* code ("" is no filter), newest first
RECURSIVE ListFrom(_, _, _, _, _)
ListFrom(al, i, clientID, status, commodityCode) ==
    IF i = 0 THEN <<>>
    ELSE LET a == al[i]
             rest == ListFrom(al, i - 1, clientID, status, commodityCode)
         IN  IF /\ a.client_id = clientID
                /\ (status = "" \/ a.status = status)
                /\ (commodityCode = "" \/ a.commodity = commodityCode)
             THEN <<a>> \o rest
             ELSE rest

ListAlerts(al, clientID, status, commodityCode) ==
    ListFrom(al, Len(al), clientID, status, commodityCode)

\* TriggerAlert without the client_id condition of its SELECT
TriggerAlert_AnyClient(al, hist, alertID, clientID, userID, triggerPrice, dbErr) ==
    IF ~(alertID \in 1..Len(al))
    THEN [err |-> "not found", alerts |-> al, history |-> hist]
    ELSE IF dbErr
    THEN [err |-> "db", alerts |-> al, history |-> hist]
    ELSE LET previousStatus == al[alertID].status
             now == Len(hist) + 1
         IN  [err |-> "",
              alerts |-> [al EXCEPT ![alertID].status = "triggered",
                                    ![alertID].triggered_count = @ + 1,
                                    ![alertID].last_triggered_at = now],
              history |-> Append(hist,
                    [alert_id |-> alertID, changed_by_user_id |-> userID,
                     change_type |-> "triggered", previous_status |-> previousStatus,
                     new_status |-> "triggered", trigger_price |-> triggerPrice])]

\* TriggerAlert with the UPDATE kept when the INSERT of the audit row fails
TriggerAlert_NoRollback(al, hist, alertID, clientID, userID, triggerPrice, dbErr) ==
    IF ~(alertID \in 1..Len(al) /\ al[alertID].client_id = clientID)
    THEN [err |-> "not found", alerts |-> al, history |-> hist]
    ELSE IF dbErr
    THEN [err |-> "db",
          alerts |-> [al EXCEPT ![alertID].status = "triggered",
                                ![alertID].triggered_count = @ + 1,
                                ![alertID].last_triggered_at = Len(hist) + 1],
          history |-> hist]
    ELSE LET previousStatus == al[alertID].status
             now == Len(hist) + 1
         IN  [err |-> "",
              alerts |-> [al EXCEPT ![alertID].status = "triggered",
                                    ![alertID].triggered_count = @ + 1,
                                    ![alertID].last_triggered_at = now],
              history |-> Append(hist,
                    [alert_id |-> alertID, changed_by_user_id |-> userID,
                     change_type |-> "triggered", previous_status |-> previousStatus,
                     new_status |-> "triggered", trigger_price |-> triggerPrice])]

\* TriggerAlert: one transaction; dbErr is a failure of one of its statements
TriggerAlert(al, hist, alertID, clientID, userID, triggerPrice, dbErr) ==
    IF ~(alertID \in 1..Len(al) /\ al[alertID].client_id = clientID)
    THEN [err |-> "not found", alerts |-> al, history |-> hist]
    ELSE IF dbErr
    THEN [err |-> "db", alerts |-> al, history |-> hist]
    ELSE LET previousStatus == al[alertID].status
             now == Len(hist) + 1
         IN  [err |-> "",
              alerts |-> [al EXCEPT ![alertID].status = "triggered",
                                    ![alertID].triggered_count = @ + 1,
                                    ![alertID].last_triggered_at = now],
              history |-> Append(hist,
                    [alert_id |-> alertID, changed_by_user_id |-> userID,
                     change_type |-> "triggered", previous_status |-> previousStatus,
                     new_status |-> "triggered", trigger_price |-> triggerPrice])]

\* commodities table: the codes
Commodities == {"CORN", "WHEAT", "SOYBEAN_OIL"}

\* CreateAlert: the commodity lookup, then one transaction that inserts the
\* alert (with the CHECK constraints of price_alerts) and its history row;
\* dbErr is a failure of one of its statements
CreateAlert(al, hist, userID, clientID, params, dbErr) ==
    IF params.commodity_code \notin Commodities
    THEN [err |-> "invalid commodity", alerts |-> al, history |-> hist]
    ELSE IF \/ dbErr
            \/ params.condition \notin {"above", "below"}
            \/ params.threshold_price <= 0
    THEN [err |-> "db", alerts |-> al, history |-> hist]
    ELSE LET id == Len(al) + 1
         IN  [err |-> "",
              alerts |-> Append(al, Alert(id, clientID, userID, params.commodity_code,
                                          params.condition, params.threshold_price,
                                          "active", 0)),
              history |-> Append(hist,
                    [alert_id |-> id, changed_by_user_id |-> userID,
                     change_type |-> "created", previous_status |-> "",
                     new_status |-> "active",
                     new_threshold |-> params.threshold_price])]

\* ResetAlerts without the client_id condition of its WHERE clause
ResetAlerts_AnyClient(al, clientID, commodityCode) ==
    LET hit == {i \in 1..Len(al) : /\ al[i].commodity = commodityCode
                                   /\ al[i].status = "triggered"}
    IN  [n |-> Cardinality(hit),
         alerts |-> [i \in 1..Len(al) |->
                        IF i \in hit THEN [al[i] EXCEPT !.status = "active"] ELSE al[i]]]

\* ResetAlerts: every triggered alert of the client and commodity becomes active
ResetAlerts(al, clientID, commodityCode) ==
    LET hit == {i \in 1..Len(al) : /\ al[i].client_id = clientID
                                   /\ al[i].commodity = commodityCode
                                   /\ al[i].status = "triggered"}
    IN  [n |-> Cardinality(hit),
         alerts |-> [i \in 1..Len(al) |->
                        IF i \in hit THEN [al[i] EXCEPT !.status = "active"] ELSE al[i]]]

(***************************************************************************)
(* State                                                                   *)
(***************************************************************************)
VARIABLES
    mu,          \* sm.mu: "free", or "start" while HandleStartSimulation holds it
    running,     \* sm.running
    stopCh,      \* sm.stopCh: 0 is nil, r is the channel made by the r-th accepted Start
    closed,      \* the stop channels that have been closed
    results,     \* sm.results (NoResults is the nil pointer)
    run,         \* run[r]: the arguments of the r-th runSimulation call
    prod,        \* prod[r]: position of the producer goroutine of run r, and the
                 \* stop channel it is blocked on (0: not blocked)
    cons,        \* cons[r]: position and locals of the runSimulation goroutine of run r
    feedCh,      \* feedCh[r]: the buffered channel of run r
    alerts,      \* price_alerts table
    history,     \* alert_history table (rows written after start-up)
    resp,        \* the HTTP response written by the step (NoResp for a background step)
    manualCalls, \* number of manual trigger requests that changed the ledger
    resetCalls,  \* number of reset requests that changed the ledger
    eventsAtStop,  \* history: len(sm.results.Events) when the last Stop was accepted
    activeAtStart, \* history: ids of the alerts the last accepted Start could list
    quiet,         \* history: no ledger failure and no ledger change from outside
                   \* the current run since the last accepted Start
    call           \* the last application of a pure function: name, arguments, result

vars == << mu, running, stopCh, closed, results, run, prod, cons, feedCh,
           alerts, history, resp, manualCalls, resetCalls,
           eventsAtStop, activeAtStart, quiet, call >>

smVars == << mu, running, stopCh, closed, results >>
pipeVars == << run, prod, cons, feedCh >>
ledgerVars == << alerts, history >>
boundVars == << manualCalls, resetCalls >>
ghostVars == << eventsAtStop, activeAtStart, quiet >>
\* every variable but call
stateVars == << smVars, pipeVars, ledgerVars, resp, boundVars, ghostVars >>

Runs == 1..MaxRuns

NoResults == [status |-> "nil"]
NoReq == [none |-> TRUE]
NoResp == [op |-> "", req |-> NoReq, code |-> 0, body |-> [none |-> TRUE]]
NoRun == [groups |-> <<>>, userID |-> 0, clientID |-> 0, speedMs |-> 0]
NoGroup == [date |-> "", rows |-> <<>>]
NoEvent == [date |-> "", representative_price |-> [num |-> 0, den |-> 1],
            row_count |-> 0, triggered_alerts |-> <<>>]
NoProd == [pc |-> "idle", i |-> 0, ch |-> 0]
NoCons == [pc |-> "idle", group |-> NoGroup, alerts |-> <<>>, k |-> 0, event |-> NoEvent,
           listErr |-> FALSE]
NoFeed == [buf |-> <<>>, closed |-> FALSE]
NoCall == [fn |-> "", args |-> <<>>, result |-> <<>>]

Respond(op, req, code, body) == [op |-> op, req |-> req, code |-> code, body |-> body]
ErrorBody(message) == [error |-> message]

Init ==
    /\ mu = "free"
    /\ running = FALSE
    /\ stopCh = 0
    /\ closed = {}
    /\ results = NoResults
    /\ run = [r \in Runs |-> NoRun]
    /\ prod = [r \in Runs |-> NoProd]
    /\ cons = [r \in Runs |-> NoCons]
    /\ feedCh = [r \in Runs |-> NoFeed]
    /\ alerts = SeedAlerts
    /\ history = <<>>
    /\ resp = NoResp
    /\ manualCalls = 0
    /\ resetCalls = 0
    /\ eventsAtStop = 0
    /\ activeAtStart = {}
    /\ quiet = FALSE
    /\ call = NoCall

(***************************************************************************)
(* Run controller: the HTTP handlers of SimulationManager                  *)
(***************************************************************************)
\* the user_id parsing and users lookup shared by Start, Reset and
\* getCurrentUser: ok, the step that failed, and the (userID, clientID) pair
ResolveUser(userIDStr) ==
    IF userIDStr = ""
    THEN [ok |-> FALSE, why |-> "missing", userID |-> 0, clientID |-> 0]
    ELSE IF Atoi(userIDStr).err
    THEN [ok |-> FALSE, why |-> "parse", userID |-> 0, clientID |-> 0]
    ELSE IF Atoi(userIDStr).v \notin DOMAIN UserClient
    THEN [ok |-> FALSE, why |-> "lookup", userID |-> 0, clientID |-> 0]
    ELSE [ok |-> TRUE, why |-> "", userID |-> Atoi(userIDStr).v,
          clientID |-> UserClient[Atoi(userIDStr).v]]

\* the 400 message of Start and Reset for a user that does not resolve
UserError(u) ==
    CASE u.why = "missing" -> "user_id query parameter is required"
      [] u.why = "parse" -> "Invalid user_id"
      [] OTHER -> "Invalid user"

\* the 401 message of getCurrentUser for a user that does not resolve
HeaderError(u) ==
    CASE u.why = "missing" -> "Missing X-User-ID header"
      [] u.why = "parse" -> "Invalid X-User-ID"
      [] OTHER -> "Invalid user"

\* the speed parsing without the upper limit of the range test
ParseSpeed_NoUpperBound(s) ==
    IF s # "" /\ ~Atoi(s).err /\ Atoi(s).v >= 10
    THEN Atoi(s).v
    ELSE 500

\* the speed parsing without the lower limit of the range test
ParseSpeed_NoLowerBound(s) ==
    IF s # "" /\ ~Atoi(s).err /\ Atoi(s).v <= 10000
    THEN Atoi(s).v
    ELSE 500

\* the speed query parameter: default 500, a value in [10, 10000] is taken
ParseSpeed(s) ==
    IF s # "" /\ ~Atoi(s).err /\ Atoi(s).v >= 10 /\ Atoi(s).v <= 10000
    THEN Atoi(s).v
    ELSE 500

\* the ids of the alerts a run of the client would list as active
ActiveIds(al, clientID) ==
    {i \in 1..Len(al) : /\ al[i].client_id = clientID
                        /\ al[i].commodity = "CORN"
                        /\ al[i].status = "active"}

\* the rejection of lines 80-84 with the running flag cleared on the way out
StartRejected_ClearsRunning ==
    /\ mu = "free"
    /\ running
    /\ running' = FALSE
    /\ resp' = Respond("Start", NoReq, 409, ErrorBody("Simulation is already running"))
    /\ UNCHANGED << call, mu, stopCh, closed, results, pipeVars, ledgerVars, boundVars, ghostVars >>

\* HandleStartSimulation, lines 79-84: lock, and reject while a run is running
StartRejected ==
    /\ mu = "free"
    /\ running
    /\ resp' = Respond("Start", NoReq, 409, ErrorBody("Simulation is already running"))
    /\ UNCHANGED << call, smVars, pipeVars, ledgerVars, boundVars, ghostVars >>

\* the lock taken by a Start without the test of sm.running
StartLock_NoCheck(maxRuns) ==
    /\ mu = "free"
    /\ stopCh < maxRuns
    /\ mu' = "start"
    /\ resp' = NoResp
    /\ UNCHANGED << call, running, stopCh, closed, results, pipeVars, ledgerVars,
                    boundVars, ghostVars >>

\* HandleStartSimulation, lines 79-80: the lock is taken and no run is running;
\* maxRuns caps the number of accepted Starts
StartLock(maxRuns) ==
    /\ mu = "free"
    /\ ~running
    /\ stopCh < maxRuns
    /\ mu' = "start"
    /\ resp' = NoResp
    /\ UNCHANGED << call, running, stopCh, closed, results, pipeVars, ledgerVars,
                    boundVars, ghostVars >>

\* the body of HandleStartSimulation with the results initialised before the
\* dataset is loaded
StartBody_InitBeforeLoad(userIDStr, speedStr, load) ==
    /\ mu = "start"
    /\ mu' = "free"
    /\ LET u == ResolveUser(userIDStr)
           speedMs == ParseSpeed(speedStr)
           loaded == load2024Data(load.rows)
           r == stopCh + 1
           req == [user_id |-> userIDStr, speed |-> speedStr]
       IN  IF ~u.ok
           THEN /\ resp' = Respond("Start", req, 400, ErrorBody(UserError(u)))
                /\ UNCHANGED << running, stopCh, closed, results, pipeVars, ghostVars >>
           ELSE IF load.err
           THEN /\ resp' = Respond("Start", req, 500, ErrorBody("Failed to load 2024 data"))
                /\ results' = [status |-> "running", current_date |-> "",
                               total_dates |-> 0, processed_dates |-> 0,
                               total_rows |-> 0, processed_rows |-> 0,
                               alerts_triggered |-> 0, events |-> <<>>]
                /\ UNCHANGED << running, stopCh, closed, pipeVars, ghostVars >>
           ELSE IF Len(loaded.groups) = 0
           THEN /\ resp' = Respond("Start", req, 404, ErrorBody("No 2024 market data found. Ensure the 2024 CSV file is in the project root."))
                /\ results' = [status |-> "running", current_date |-> "",
                               total_dates |-> 0, processed_dates |-> 0,
                               total_rows |-> 0, processed_rows |-> 0,
                               alerts_triggered |-> 0, events |-> <<>>]
                /\ UNCHANGED << running, stopCh, closed, pipeVars, ghostVars >>
           ELSE /\ running' = TRUE
                /\ stopCh' = r
                /\ closed' = closed
                /\ results' = [status |-> "running", current_date |-> "",
                               total_dates |-> Len(loaded.groups), processed_dates |-> 0,
                               total_rows |-> loaded.totalRows, processed_rows |-> 0,
                               alerts_triggered |-> 0, events |-> <<>>]
                /\ run' = [run EXCEPT ![r] = [groups |-> loaded.groups, userID |-> u.userID,
                                              clientID |-> u.clientID, speedMs |-> speedMs]]
                /\ cons' = [cons EXCEPT ![r] = [NoCons EXCEPT !.pc = "recv"]]
                /\ prod' = [prod EXCEPT ![r] = [pc |-> "send", i |-> 1, ch |-> 0]]
                /\ feedCh' = [feedCh EXCEPT ![r] = NoFeed]
                /\ resp' = Respond("Start", req, 200,
                                   [total_dates |-> Len(loaded.groups),
                                    total_rows |-> loaded.totalRows,
                                    speed_ms |-> speedMs])
                /\ eventsAtStop' = 0
                /\ activeAtStart' = ActiveIds(alerts, u.clientID)
                /\ quiet' = TRUE
    /\ UNCHANGED << call, ledgerVars, boundVars >>

\* the body of HandleStartSimulation with the events of the previous run kept
StartBody_KeepsEvents(userIDStr, speedStr, load) ==
    /\ mu = "start"
    /\ mu' = "free"
    /\ LET u == ResolveUser(userIDStr)
           speedMs == ParseSpeed(speedStr)
           loaded == load2024Data(load.rows)
           r == stopCh + 1
           req == [user_id |-> userIDStr, speed |-> speedStr]
       IN  IF ~u.ok
           THEN /\ resp' = Respond("Start", req, 400, ErrorBody(UserError(u)))
                /\ UNCHANGED << running, stopCh, closed, results, pipeVars, ghostVars >>
           ELSE IF load.err
           THEN /\ resp' = Respond("Start", req, 500, ErrorBody("Failed to load 2024 data"))
                /\ UNCHANGED << running, stopCh, closed, results, pipeVars, ghostVars >>
           ELSE IF Len(loaded.groups) = 0
           THEN /\ resp' = Respond("Start", req, 404, ErrorBody("No 2024 market data found. Ensure the 2024 CSV file is in the project root."))
                /\ UNCHANGED << running, stopCh, closed, results, pipeVars, ghostVars >>
           ELSE /\ running' = TRUE
                /\ stopCh' = r
                /\ closed' = closed
                /\ results' = [status |-> "running", current_date |-> "",
                               total_dates |-> Len(loaded.groups), processed_dates |-> 0,
                               total_rows |-> loaded.totalRows, processed_rows |-> 0,
                               alerts_triggered |-> 0,
                               events |-> IF results = NoResults THEN <<>>
                                          ELSE results.events]
                /\ run' = [run EXCEPT ![r] = [groups |-> loaded.groups, userID |-> u.userID,
                                              clientID |-> u.clientID, speedMs |-> speedMs]]
                /\ cons' = [cons EXCEPT ![r] = [NoCons EXCEPT !.pc = "recv"]]
                /\ prod' = [prod EXCEPT ![r] = [pc |-> "send", i |-> 1, ch |-> 0]]
                /\ feedCh' = [feedCh EXCEPT ![r] = NoFeed]
                /\ resp' = Respond("Start", req, 200,
                                   [total_dates |-> Len(loaded.groups),
                                    total_rows |-> loaded.totalRows,
                                    speed_ms |-> speedMs])
                /\ eventsAtStop' = 0
                /\ activeAtStart' = ActiveIds(alerts, u.clientID)
                /\ quiet' = TRUE
    /\ UNCHANGED << call, ledgerVars, boundVars >>

\* HandleStartSimulation, lines 86-157, with the lock held until line 147
StartBody(userIDStr, speedStr, load) ==
    /\ mu = "start"
    /\ mu' = "free"
    /\ LET u == ResolveUser(userIDStr)
           speedMs == ParseSpeed(speedStr)
           loaded == load2024Data(load.rows)
           r == stopCh + 1
           req == [user_id |-> userIDStr, speed |-> speedStr]
       IN  IF ~u.ok
           THEN /\ resp' = Respond("Start", req, 400, ErrorBody(UserError(u)))
                /\ UNCHANGED << running, stopCh, closed, results, pipeVars, ghostVars >>
           ELSE IF load.err
           THEN /\ resp' = Respond("Start", req, 500, ErrorBody("Failed to load 2024 data"))
                /\ UNCHANGED << running, stopCh, closed, results, pipeVars, ghostVars >>
           ELSE IF Len(loaded.groups) = 0
           THEN /\ resp' = Respond("Start", req, 404, ErrorBody("No 2024 market data found. Ensure the 2024 CSV file is in the project root."))
                /\ UNCHANGED << running, stopCh, closed, results, pipeVars, ghostVars >>
           ELSE /\ running' = TRUE
                /\ stopCh' = r
                /\ closed' = closed
                /\ results' = [status |-> "running", current_date |-> "",
                               total_dates |-> Len(loaded.groups), processed_dates |-> 0,
                               total_rows |-> loaded.totalRows, processed_rows |-> 0,
                               alerts_triggered |-> 0, events |-> <<>>]
                /\ run' = [run EXCEPT ![r] = [groups |-> loaded.groups, userID |-> u.userID,
                                              clientID |-> u.clientID, speedMs |-> speedMs]]
                /\ cons' = [cons EXCEPT ![r] = [NoCons EXCEPT !.pc = "recv"]]
                /\ prod' = [prod EXCEPT ![r] = [pc |-> "send", i |-> 1, ch |-> 0]]
                /\ feedCh' = [feedCh EXCEPT ![r] = NoFeed]
                /\ resp' = Respond("Start", req, 200,
                                   [total_dates |-> Len(loaded.groups),
                                    total_rows |-> loaded.totalRows,
                                    speed_ms |-> speedMs])
                /\ eventsAtStop' = 0
                /\ activeAtStart' = ActiveIds(alerts, u.clientID)
                /\ quiet' = TRUE
    /\ UNCHANGED << call, ledgerVars, boundVars >>

HandleStartSimulation(users, speeds, loads, maxRuns) ==
    \/ StartRejected
    \/ StartLock(maxRuns)
    \/ \E userIDStr \in users, speedStr \in speeds, load \in loads :
          StartBody(userIDStr, speedStr, load)

\* HandleGetStatus answering idle whenever no run is running
HandleGetStatus_IdleWhenNotRunning ==
    /\ mu = "free"
    /\ resp' = IF results = NoResults \/ ~running
               THEN Respond("Status", NoReq, 200, [status |-> "idle"])
               ELSE Respond("Status", NoReq, 200, results)
    /\ UNCHANGED << call, smVars, pipeVars, ledgerVars, boundVars, ghostVars >>

\* HandleGetStatus
HandleGetStatus ==
    /\ mu = "free"
    /\ resp' = IF results = NoResults
               THEN Respond("Status", NoReq, 200, [status |-> "idle"])
               ELSE Respond("Status", NoReq, 200, results)
    /\ UNCHANGED << call, smVars, pipeVars, ledgerVars, boundVars, ghostVars >>

\* HandleStopSimulation without the sm.running check of lines 178-181
HandleStopSimulation_NoCheck ==
    /\ mu = "free"
    /\ IF stopCh = 0 \/ stopCh \in closed
       THEN /\ resp' = Respond("Stop", NoReq, 0,
                               ErrorBody("panic: close of nil or closed channel"))
            /\ UNCHANGED << running, stopCh, closed, results, eventsAtStop >>
       ELSE /\ closed' = closed \cup {stopCh}
            /\ running' = FALSE
            /\ results' = [results EXCEPT !.status = "stopped"]
            /\ stopCh' = stopCh
            /\ resp' = Respond("Stop", NoReq, 200, [message |-> "Simulation stopped"])
            /\ eventsAtStop' = Len(results.events)
    /\ UNCHANGED << call, mu, pipeVars, ledgerVars, boundVars, activeAtStart, quiet >>

\* HandleStopSimulation leaving sm.running set
HandleStopSimulation_KeepsRunning ==
    /\ mu = "free"
    /\ IF ~running
       THEN /\ resp' = Respond("Stop", NoReq, 409, ErrorBody("No simulation is running"))
            /\ UNCHANGED << running, stopCh, closed, results, eventsAtStop >>
       ELSE IF stopCh = 0 \/ stopCh \in closed
       THEN /\ resp' = Respond("Stop", NoReq, 0,
                               ErrorBody("panic: close of nil or closed channel"))
            /\ UNCHANGED << running, stopCh, closed, results, eventsAtStop >>
       ELSE /\ closed' = closed \cup {stopCh}
            /\ running' = running
            /\ results' = [results EXCEPT !.status = "stopped"]
            /\ stopCh' = stopCh
            /\ resp' = Respond("Stop", NoReq, 200, [message |-> "Simulation stopped"])
            /\ eventsAtStop' = Len(results.events)
    /\ UNCHANGED << call, mu, pipeVars, ledgerVars, boundVars, activeAtStart, quiet >>

\* HandleStopSimulation; closing a nil or closed channel panics (code 0)
HandleStopSimulation ==
    /\ mu = "free"
    /\ IF ~running
       THEN /\ resp' = Respond("Stop", NoReq, 409, ErrorBody("No simulation is running"))
            /\ UNCHANGED << running, stopCh, closed, results, eventsAtStop >>
       ELSE IF stopCh = 0 \/ stopCh \in closed
       THEN /\ resp' = Respond("Stop", NoReq, 0,
                               ErrorBody("panic: close of nil or closed channel"))
            /\ UNCHANGED << running, stopCh, closed, results, eventsAtStop >>
       ELSE /\ closed' = closed \cup {stopCh}
            /\ running' = FALSE
            /\ results' = [results EXCEPT !.status = "stopped"]
            /\ stopCh' = stopCh
            /\ resp' = Respond("Stop", NoReq, 200, [message |-> "Simulation stopped"])
            /\ eventsAtStop' = Len(results.events)
    /\ UNCHANGED << call, mu, pipeVars, ledgerVars, boundVars, activeAtStart, quiet >>

\* HandleResetAlerts refusing the request while a run is running
HandleResetAlerts_OnlyWhenIdle(userIDStr, dbErr) ==
    LET u == ResolveUser(userIDStr)
        res == ResetAlerts(alerts, u.clientID, "CORN")
        req == [user_id |-> userIDStr]
    IN  /\ IF running
           THEN /\ resp' = Respond("Reset", req, 409, ErrorBody("Simulation is already running"))
                /\ UNCHANGED << alerts, resetCalls, quiet >>
           ELSE IF ~u.ok
           THEN /\ resp' = Respond("Reset", req, 400, ErrorBody(UserError(u)))
                /\ UNCHANGED << alerts, resetCalls, quiet >>
           ELSE IF dbErr
           THEN /\ resp' = Respond("Reset", req, 500, ErrorBody("Failed to reset alerts"))
                /\ UNCHANGED << alerts, resetCalls, quiet >>
           ELSE /\ res.n > 0 => resetCalls < MaxResets
                /\ alerts' = res.alerts
                /\ resetCalls' = IF res.n > 0 THEN resetCalls + 1 ELSE resetCalls
                /\ quiet' = IF res.n > 0 THEN FALSE ELSE quiet
                /\ resp' = Respond("Reset", req, 200,
                                   [message |-> "Alerts reset", alerts_reset |-> res.n])
        /\ UNCHANGED << call, smVars, pipeVars, history, manualCalls, eventsAtStop, activeAtStart >>

\* HandleResetAlerts: no lock; dbErr is a failure of the UPDATE
HandleResetAlerts(userIDStr, dbErr) ==
    LET u == ResolveUser(userIDStr)
        res == ResetAlerts(alerts, u.clientID, "CORN")
        req == [user_id |-> userIDStr]
    IN  /\ IF ~u.ok
           THEN /\ resp' = Respond("Reset", req, 400, ErrorBody(UserError(u)))
                /\ UNCHANGED << alerts, resetCalls, quiet >>
           ELSE IF dbErr
           THEN /\ resp' = Respond("Reset", req, 500, ErrorBody("Failed to reset alerts"))
                /\ UNCHANGED << alerts, resetCalls, quiet >>
           ELSE /\ res.n > 0 => resetCalls < MaxResets
                /\ alerts' = res.alerts
                /\ resetCalls' = IF res.n > 0 THEN resetCalls + 1 ELSE resetCalls
                /\ quiet' = IF res.n > 0 THEN FALSE ELSE quiet
                /\ resp' = Respond("Reset", req, 200,
                                   [message |-> "Alerts reset", alerts_reset |-> res.n])
        /\ UNCHANGED << call, smVars, pipeVars, history, manualCalls, eventsAtStop, activeAtStart >>

(***************************************************************************)
(* Manual trigger: POST /alerts/{id}/trigger                               *)
(***************************************************************************)
\* the manual trigger requests: user, alert id, trigger price and whether the
\* ledger fails (an unknown user, a bad price, alerts of the own and of the
\* other tenant, a missing alert, a ledger failure)
ManualReq(u, id, p, e) == [user_id |-> u, alert_id |-> id, trigger_price |-> p, dbErr |-> e]
ManualInputs ==
    { ManualReq("", 1, 29, FALSE), ManualReq("1", 1, 0, FALSE),
      ManualReq("1", 1, 29, TRUE),
      ManualReq("1", 1, 29, FALSE), ManualReq("1", 3, 29, FALSE),
      ManualReq("1", 5, 29, FALSE), ManualReq("3", 4, 29, FALSE),
      ManualReq("1", 4, 29, FALSE), ManualReq("3", 1, 29, FALSE),
      ManualReq("1", 9, 29, FALSE) }

\* the reset requests: user and whether the ledger fails
ResetReq(u, e) == [user_id |-> u, dbErr |-> e]
ResetInputs ==
    { ResetReq("", FALSE), ResetReq("1", TRUE), ResetReq("1", FALSE), ResetReq("3", FALSE) }

\* getCurrentUser and HandleTriggerAlert; jsonOk is whether the body decodes
\* into a triggerAlertRequest, dbErr is a failure inside TriggerAlert; the
\* tables are what TriggerAlert has left, whatever it returns
HandleTriggerAlert(userIDStr, alertID, jsonOk, triggerPrice, dbErr) ==
    LET u == ResolveUser(userIDStr)
        res == TriggerAlert(alerts, history, alertID, u.clientID, u.userID,
                            [num |-> triggerPrice, den |-> 1], dbErr)
        req == [user_id |-> userIDStr, alert_id |-> alertID, json |-> jsonOk,
                trigger_price |-> triggerPrice]
    IN  /\ IF ~u.ok
           THEN /\ resp' = Respond("Trigger", req, 401, ErrorBody(HeaderError(u)))
                /\ UNCHANGED << alerts, history, manualCalls, quiet >>
           ELSE IF ~jsonOk
           THEN /\ resp' = Respond("Trigger", req, 400, ErrorBody("Invalid JSON body"))
                /\ UNCHANGED << alerts, history, manualCalls, quiet >>
           ELSE IF triggerPrice <= 0
           THEN /\ resp' = Respond("Trigger", req, 400,
                                   ErrorBody("Trigger price must be a finite positive number"))
                /\ UNCHANGED << alerts, history, manualCalls, quiet >>
           ELSE IF res.err = "not found"
           THEN /\ resp' = Respond("Trigger", req, 404, ErrorBody("Alert not found"))
                /\ alerts' = res.alerts
                /\ history' = res.history
                /\ UNCHANGED << manualCalls, quiet >>
           ELSE IF res.err # ""
           THEN /\ resp' = Respond("Trigger", req, 500, ErrorBody("Failed to trigger alert"))
                /\ alerts' = res.alerts
                /\ history' = res.history
                /\ UNCHANGED << manualCalls, quiet >>
           ELSE /\ manualCalls < MaxManual
                /\ alerts' = res.alerts
                /\ history' = res.history
                /\ manualCalls' = manualCalls + 1
                /\ quiet' = FALSE
                /\ resp' = Respond("Trigger", req, 200, res.alerts[alertID])
        /\ UNCHANGED << call, smVars, pipeVars, resetCalls, eventsAtStop, activeAtStart >>

(***************************************************************************)
(* Create alert: POST /alerts                                              *)
(***************************************************************************)
\* the create requests: user, whether the body decodes into a
\* createAlertRequest, its fields, and whether the ledger fails
CreateReq(u, j, com, cond, thr, e) ==
    [user_id |-> u, json |-> j, commodity_code |-> com, condition |-> cond,
     threshold_price |-> thr, dbErr |-> e]
\* an unknown user, a body that is not JSON, a bad and a missing condition,
\* a zero and a negative threshold, an empty and an unknown commodity code,
\* ledger failures on an invalid and on a valid request, and valid requests
CreateInputs ==
    { CreateReq("", TRUE, "CORN", "above", 29, FALSE),
      CreateReq("1", FALSE, "", "", 0, FALSE),
      CreateReq("1", TRUE, "CORN", "invalid", 29, FALSE),
      CreateReq("1", TRUE, "CORN", "", 29, FALSE),
      CreateReq("1", TRUE, "CORN", "above", 0, FALSE),
      CreateReq("1", TRUE, "CORN", "below", 0 - 1, FALSE),
      CreateReq("1", TRUE, "", "above", 29, FALSE),
      CreateReq("1", TRUE, "GOLD", "above", 29, FALSE),
      CreateReq("1", TRUE, "CORN", "invalid", 29, TRUE),
      CreateReq("1", TRUE, "CORN", "above", 29, TRUE),
      CreateReq("1", TRUE, "CORN", "above", 29, FALSE),
      CreateReq("3", TRUE, "WHEAT", "below", 5, FALSE) }

\* the trigger requests of the alert API, with and without a JSON body
ApiTriggerReq(u, id, j, p, e) ==
    [user_id |-> u, alert_id |-> id, json |-> j, trigger_price |-> p, dbErr |-> e]
ApiTriggerInputs ==
    { ApiTriggerReq("", 1, TRUE, 29, FALSE),
      ApiTriggerReq("1", 1, FALSE, 0, FALSE),
      ApiTriggerReq("1", 1, FALSE, 29, TRUE),
      ApiTriggerReq("1", 1, TRUE, 0, FALSE),
      ApiTriggerReq("1", 1, TRUE, 0 - 1, TRUE),
      ApiTriggerReq("1", 1, TRUE, 29, TRUE),
      ApiTriggerReq("1", 1, TRUE, 29, FALSE),
      ApiTriggerReq("1", 7, TRUE, 29, FALSE),
      ApiTriggerReq("3", 4, TRUE, 29, FALSE),
      ApiTriggerReq("3", 1, TRUE, 29, FALSE) }

\* getCurrentUser and HandleCreateAlert without the test of the condition
HandleCreateAlert_NoConditionCheck(userIDStr, jsonOk, commodityCode, condition, thresholdPrice, dbErr) ==
    LET u == ResolveUser(userIDStr)
        params == [commodity_code |-> commodityCode, condition |-> condition,
                   threshold_price |-> thresholdPrice]
        res == CreateAlert(alerts, history, u.userID, u.clientID, params, dbErr)
        req == [user_id |-> userIDStr, json |-> jsonOk, commodity_code |-> commodityCode,
                condition |-> condition, threshold_price |-> thresholdPrice]
    IN  /\ IF ~u.ok
           THEN /\ resp' = Respond("Create", req, 401, ErrorBody(HeaderError(u)))
                /\ UNCHANGED ledgerVars
           ELSE IF ~jsonOk
           THEN /\ resp' = Respond("Create", req, 400, ErrorBody("Invalid JSON body"))
                /\ UNCHANGED ledgerVars
           ELSE IF thresholdPrice <= 0
           THEN /\ resp' = Respond("Create", req, 400,
                                   ErrorBody("Threshold price must be a finite positive number"))
                /\ UNCHANGED ledgerVars
           ELSE IF commodityCode = ""
           THEN /\ resp' = Respond("Create", req, 400, ErrorBody("Commodity code is required"))
                /\ UNCHANGED ledgerVars
           ELSE IF res.err = "invalid commodity"
           THEN /\ resp' = Respond("Create", req, 400,
                                   ErrorBody("Invalid commodity code: " \o commodityCode))
                /\ UNCHANGED ledgerVars
           ELSE IF res.err # ""
           THEN /\ resp' = Respond("Create", req, 500, ErrorBody("Failed to create alert"))
                /\ UNCHANGED ledgerVars
           ELSE /\ Len(alerts) < Len(SeedAlerts) + MaxCreates
                /\ alerts' = res.alerts
                /\ history' = res.history
                /\ resp' = Respond("Create", req, 201, res.alerts[Len(res.alerts)])
        /\ UNCHANGED << call, smVars, pipeVars, boundVars, ghostVars >>

\* getCurrentUser and HandleCreateAlert; jsonOk is whether the body decodes
\* into a createAlertRequest, dbErr is a failure inside CreateAlert
HandleCreateAlert(userIDStr, jsonOk, commodityCode, condition, thresholdPrice, dbErr) ==
    LET u == ResolveUser(userIDStr)
        params == [commodity_code |-> commodityCode, condition |-> condition,
                   threshold_price |-> thresholdPrice]
        res == CreateAlert(alerts, history, u.userID, u.clientID, params, dbErr)
        req == [user_id |-> userIDStr, json |-> jsonOk, commodity_code |-> commodityCode,
                condition |-> condition, threshold_price |-> thresholdPrice]
    IN  /\ IF ~u.ok
           THEN /\ resp' = Respond("Create", req, 401, ErrorBody(HeaderError(u)))
                /\ UNCHANGED ledgerVars
           ELSE IF ~jsonOk
           THEN /\ resp' = Respond("Create", req, 400, ErrorBody("Invalid JSON body"))
                /\ UNCHANGED ledgerVars
           ELSE IF condition # "above" /\ condition # "below"
           THEN /\ resp' = Respond("Create", req, 400,
                                   ErrorBody("Condition must be 'above' or 'below'"))
                /\ UNCHANGED ledgerVars
           ELSE IF thresholdPrice <= 0
           THEN /\ resp' = Respond("Create", req, 400,
                                   ErrorBody("Threshold price must be a finite positive number"))
                /\ UNCHANGED ledgerVars
           ELSE IF commodityCode = ""
           THEN /\ resp' = Respond("Create", req, 400, ErrorBody("Commodity code is required"))
                /\ UNCHANGED ledgerVars
           ELSE IF res.err = "invalid commodity"
           THEN /\ resp' = Respond("Create", req, 400,
                                   ErrorBody("Invalid commodity code: " \o commodityCode))
                /\ UNCHANGED ledgerVars
           ELSE IF res.err # ""
           THEN /\ resp' = Respond("Create", req, 500, ErrorBody("Failed to create alert"))
                /\ UNCHANGED ledgerVars
           ELSE /\ Len(alerts) < Len(SeedAlerts) + MaxCreates
                /\ alerts' = res.alerts
                /\ history' = res.history
                /\ resp' = Respond("Create", req, 201, res.alerts[Len(res.alerts)])
        /\ UNCHANGED << call, smVars, pipeVars, boundVars, ghostVars >>

(***************************************************************************)
(* corsMiddleware                                                          *)
(***************************************************************************)
\* the headers corsMiddleware sets on every response
CorsHeaders ==
    [ Access_Control_Allow_Origin |-> "*",
      Access_Control_Allow_Headers |-> "X-User-ID, Content-Type",
      Access_Control_Allow_Methods |-> "GET, POST, OPTIONS" ]

\* corsMiddleware calling the wrapped handler for every method
corsMiddleware_AlwaysCallsNext(method, next) ==
    [headers |-> CorsHeaders, code |-> next.code, body |-> next.body, calls |-> 1]

\* corsMiddleware: what the response holds after the middleware has served a
\* request of the method; next is the status and body the wrapped handler
\* writes when it is called, calls is how often it was called
corsMiddleware(method, next) ==
    IF method = "OPTIONS"
    THEN [headers |-> CorsHeaders, code |-> 204, body |-> "", calls |-> 0]
    ELSE [headers |-> CorsHeaders, code |-> next.code, body |-> next.body, calls |-> 1]

(***************************************************************************)
(* Replay pipeline: runSimulation and its producer goroutine               *)
(***************************************************************************)
\* an unsynchronized read of sm.stopCh by a goroutine of run r: the channel
\* of its own Start or of any later Start
ReadStopCh(r) == r..stopCh

\* the producer returns: the deferred close(feedCh)
ProducerReturn(r) ==
    /\ prod' = [prod EXCEPT ![r].pc = "done", ![r].ch = 0]
    /\ feedCh' = [feedCh EXCEPT ![r].closed = TRUE]

\* the hand-off into a feed channel without a capacity limit
ProducerSend_Unbounded(r) ==
    /\ prod[r].pc = "send"
    /\ \E c \in (IF prod[r].ch = 0 THEN ReadStopCh(r) ELSE {prod[r].ch}) :
          \/ /\ c \in closed
             /\ ProducerReturn(r)
          \/ /\ feedCh' = [feedCh EXCEPT ![r].buf = Append(@, run[r].groups[prod[r].i])]
             /\ prod' = [prod EXCEPT ![r].pc = "wait", ![r].ch = 0]
    /\ resp' = NoResp
    /\ UNCHANGED << call, smVars, run, cons, ledgerVars, boundVars, ghostVars >>

\* lines 291-295: select on the stop channel and the hand-off. The channel
\* operand sm.stopCh is read once, on entering the select; when neither case
\* is ready the goroutine blocks on the channel it has read (prod[r].ch)
ProducerSend(r) ==
    /\ prod[r].pc = "send"
    /\ \E c \in (IF prod[r].ch = 0 THEN ReadStopCh(r) ELSE {prod[r].ch}) :
          \/ /\ c \in closed
             /\ ProducerReturn(r)
          \/ /\ Len(feedCh[r].buf) < 1
             /\ feedCh' = [feedCh EXCEPT ![r].buf = Append(@, run[r].groups[prod[r].i])]
             /\ prod' = [prod EXCEPT ![r].pc = "wait", ![r].ch = 0]
          \/ /\ prod[r].ch = 0
             /\ c \notin closed
             /\ Len(feedCh[r].buf) >= 1
             /\ prod' = [prod EXCEPT ![r].ch = c]
             /\ feedCh' = feedCh
    /\ resp' = NoResp
    /\ UNCHANGED << call, smVars, run, cons, ledgerVars, boundVars, ghostVars >>

\* lines 297-302: select on the stop channel and the pacing timer, then the
\* next iteration, or the end of the loop after the last group
ProducerWait(r) ==
    /\ prod[r].pc = "wait"
    /\ \E c \in ReadStopCh(r) :
          \/ /\ c \in closed
             /\ ProducerReturn(r)
          \/ IF prod[r].i < Len(run[r].groups)
             THEN /\ prod' = [prod EXCEPT ![r] = [pc |-> "send", i |-> @.i + 1, ch |-> 0]]
                  /\ feedCh' = feedCh
             ELSE ProducerReturn(r)
    /\ resp' = NoResp
    /\ UNCHANGED << call, smVars, run, cons, ledgerVars, boundVars, ghostVars >>

\* line 306: range feedCh
ConsumerRecv(r) ==
    /\ cons[r].pc = "recv"
    /\ IF feedCh[r].buf # <<>>
       THEN /\ cons' = [cons EXCEPT ![r].pc = "check", ![r].group = Head(feedCh[r].buf)]
            /\ feedCh' = [feedCh EXCEPT ![r].buf = Tail(@)]
       ELSE /\ feedCh[r].closed
            /\ cons' = [cons EXCEPT ![r].pc = "defer"]
            /\ feedCh' = feedCh
    /\ resp' = NoResp
    /\ UNCHANGED << call, smVars, run, prod, ledgerVars, boundVars, ghostVars >>

\* lines 307-311: non-blocking select on the stop channel
ConsumerCheck(r) ==
    /\ cons[r].pc = "check"
    /\ \E c \in ReadStopCh(r) :
          cons' = [cons EXCEPT ![r] = IF c \in closed
                                      THEN [NoCons EXCEPT !.pc = "defer"]
                                      ELSE [@ EXCEPT !.pc = "list"]]
    /\ resp' = NoResp
    /\ UNCHANGED << call, smVars, run, prod, feedCh, ledgerVars, boundVars, ghostVars >>

\* the listing step with a failure of ListAlerts ending the run
ConsumerList_AbortOnFailure(r, dbErr) ==
    /\ cons[r].pc = "list"
    /\ LET group == cons[r].group
           event == [date |-> group.date,
                     representative_price |-> computeRepresentativePrice(group.rows),
                     row_count |-> Len(group.rows),
                     triggered_alerts |-> <<>>]
           listed == ListAlerts(alerts, run[r].clientID, "active", "CORN")
       IN  IF dbErr
           THEN cons' = [cons EXCEPT ![r] = [NoCons EXCEPT !.pc = "defer"]]
           ELSE IF listed = <<>>
           THEN cons' = [cons EXCEPT ![r].pc = "update", ![r].event = event,
                                     ![r].alerts = <<>>, ![r].k = 0,
                                     ![r].listErr = dbErr]
           ELSE cons' = [cons EXCEPT ![r].pc = "eval", ![r].event = event,
                                     ![r].alerts = listed, ![r].k = 1]
    /\ quiet' = IF dbErr THEN FALSE ELSE quiet
    /\ resp' = NoResp
    /\ UNCHANGED << call, smVars, run, prod, feedCh, ledgerVars, boundVars,
                    eventsAtStop, activeAtStart >>

\* processDateGroup up to the listing of checkAndTriggerAlerts (lines 332-374);
\* dbErr is a failure of ListAlerts
ConsumerList(r, dbErr) ==
    /\ cons[r].pc = "list"
    /\ LET group == cons[r].group
           event == [date |-> group.date,
                     representative_price |-> computeRepresentativePrice(group.rows),
                     row_count |-> Len(group.rows),
                     triggered_alerts |-> <<>>]
           listed == ListAlerts(alerts, run[r].clientID, "active", "CORN")
       IN  IF dbErr \/ listed = <<>>
           THEN cons' = [cons EXCEPT ![r].pc = "update", ![r].event = event,
                                     ![r].alerts = <<>>, ![r].k = 0,
                                     ![r].listErr = dbErr]
           ELSE cons' = [cons EXCEPT ![r].pc = "eval", ![r].event = event,
                                     ![r].alerts = listed, ![r].k = 1]
    /\ quiet' = IF dbErr THEN FALSE ELSE quiet
    /\ resp' = NoResp
    /\ UNCHANGED << call, smVars, run, prod, feedCh, ledgerVars, boundVars,
                    eventsAtStop, activeAtStart >>

\* the loop iteration with a failure of TriggerAlert ending the loop
ConsumerEval_BreakOnFailure(r, dbErr) ==
    /\ cons[r].pc = "eval"
    /\ LET alert == cons[r].alerts[cons[r].k]
           price == cons[r].event.representative_price
           res == TriggerAlert(alerts, history, alert.id, run[r].clientID,
                               run[r].userID, price, dbErr)
           last == cons[r].k = Len(cons[r].alerts)
           next == [cons[r] EXCEPT !.pc = IF last THEN "update" ELSE "eval",
                                   !.k = IF last THEN 0 ELSE @ + 1,
                                   !.alerts = IF last THEN <<>> ELSE @]
       IN  IF ~shouldTrigger(alert.condition, alert.threshold, price)
           THEN /\ ~dbErr
                /\ cons' = [cons EXCEPT ![r] = next]
                /\ UNCHANGED << ledgerVars, quiet >>
           ELSE IF res.err # ""
           THEN /\ cons' = [cons EXCEPT ![r] = [next EXCEPT !.pc = "update", !.k = 0,
                                                             !.alerts = <<>>]]
                /\ quiet' = FALSE
                /\ alerts' = res.alerts
                /\ history' = res.history
           ELSE /\ cons' = [cons EXCEPT ![r] =
                               [next EXCEPT !.event.triggered_alerts =
                                   Append(@, [alert_id |-> alert.id,
                                              condition |-> alert.condition,
                                              threshold_price |-> alert.threshold,
                                              trigger_price |-> price])]]
                /\ alerts' = res.alerts
                /\ history' = res.history
                /\ quiet' = IF r = stopCh THEN quiet ELSE FALSE
    /\ resp' = NoResp
    /\ UNCHANGED << call, smVars, run, prod, feedCh, boundVars, eventsAtStop, activeAtStart >>

\* one iteration of the loop of checkAndTriggerAlerts (lines 377-403);
\* dbErr is a failure of TriggerAlert
ConsumerEval(r, dbErr) ==
    /\ cons[r].pc = "eval"
    /\ LET alert == cons[r].alerts[cons[r].k]
           price == cons[r].event.representative_price
           res == TriggerAlert(alerts, history, alert.id, run[r].clientID,
                               run[r].userID, price, dbErr)
           last == cons[r].k = Len(cons[r].alerts)
           next == [cons[r] EXCEPT !.pc = IF last THEN "update" ELSE "eval",
                                   !.k = IF last THEN 0 ELSE @ + 1,
                                   !.alerts = IF last THEN <<>> ELSE @]
       IN  IF ~shouldTrigger(alert.condition, alert.threshold, price)
           THEN /\ ~dbErr
                /\ cons' = [cons EXCEPT ![r] = next]
                /\ UNCHANGED << ledgerVars, quiet >>
           ELSE IF res.err # ""
           THEN /\ cons' = [cons EXCEPT ![r] = next]
                /\ quiet' = FALSE
                /\ alerts' = res.alerts
                /\ history' = res.history
           ELSE /\ cons' = [cons EXCEPT ![r] =
                               [next EXCEPT !.event.triggered_alerts =
                                   Append(@, [alert_id |-> alert.id,
                                              condition |-> alert.condition,
                                              threshold_price |-> alert.threshold,
                                              trigger_price |-> price])]]
                /\ alerts' = res.alerts
                /\ history' = res.history
                /\ quiet' = IF r = stopCh THEN quiet ELSE FALSE
    /\ resp' = NoResp
    /\ UNCHANGED << call, smVars, run, prod, feedCh, boundVars, eventsAtStop, activeAtStart >>

\* the per-date update without the processed_rows line
ConsumerUpdate_NoRowCount(r) ==
    /\ cons[r].pc = "update"
    /\ mu = "free"
    /\ results' = [results EXCEPT
                      !.current_date = cons[r].group.date,
                      !.processed_dates = @ + 1,
                      !.alerts_triggered = @ + Len(cons[r].event.triggered_alerts),
                      !.events = Append(@, cons[r].event)]
    /\ cons' = [cons EXCEPT ![r] = [NoCons EXCEPT !.pc = "recv"]]
    /\ resp' = NoResp
    /\ UNCHANGED << call, mu, running, stopCh, closed, run, prod, feedCh, ledgerVars,
                    boundVars, ghostVars >>

\* lines 315-321: the per-date update of the shared results, under the lock
ConsumerUpdate(r) ==
    /\ cons[r].pc = "update"
    /\ mu = "free"
    /\ results' = [results EXCEPT
                      !.current_date = cons[r].group.date,
                      !.processed_dates = @ + 1,
                      !.processed_rows = @ + Len(cons[r].group.rows),
                      !.alerts_triggered = @ + Len(cons[r].event.triggered_alerts),
                      !.events = Append(@, cons[r].event)]
    /\ cons' = [cons EXCEPT ![r] = [NoCons EXCEPT !.pc = "recv"]]
    /\ resp' = NoResp
    /\ UNCHANGED << call, mu, running, stopCh, closed, run, prod, feedCh, ledgerVars,
                    boundVars, ghostVars >>

\* the deferred finalization without the status test of line 279
ConsumerDefer_Unconditional(r) ==
    /\ cons[r].pc = "defer"
    /\ mu = "free"
    /\ running' = FALSE
    /\ results' = [results EXCEPT !.status = "completed"]
    /\ cons' = [cons EXCEPT ![r] = [NoCons EXCEPT !.pc = "done"]]
    /\ resp' = NoResp
    /\ UNCHANGED << call, mu, stopCh, closed, run, prod, feedCh, ledgerVars,
                    boundVars, ghostVars >>

\* the deferred finalization without the reset of sm.running
ConsumerDefer_KeepsRunning(r) ==
    /\ cons[r].pc = "defer"
    /\ mu = "free"
    /\ running' = running
    /\ results' = IF results.status = "running"
                  THEN [results EXCEPT !.status = "completed"]
                  ELSE results
    /\ cons' = [cons EXCEPT ![r] = [NoCons EXCEPT !.pc = "done"]]
    /\ resp' = NoResp
    /\ UNCHANGED << call, mu, stopCh, closed, run, prod, feedCh, ledgerVars,
                    boundVars, ghostVars >>

\* lines 275-282: the deferred finalization of runSimulation
ConsumerDefer(r) ==
    /\ cons[r].pc = "defer"
    /\ mu = "free"
    /\ running' = FALSE
    /\ results' = IF results.status = "running"
                  THEN [results EXCEPT !.status = "completed"]
                  ELSE results
    /\ cons' = [cons EXCEPT ![r] = [NoCons EXCEPT !.pc = "done"]]
    /\ resp' = NoResp
    /\ UNCHANGED << call, mu, stopCh, closed, run, prod, feedCh, ledgerVars,
                    boundVars, ghostVars >>

Producer(r) == ProducerSend(r) \/ ProducerWait(r)

\* dbErrs: the outcomes of the ledger calls of the consumer
Consumer(r, dbErrs) ==
    \/ ConsumerRecv(r)
    \/ ConsumerCheck(r)
    \/ \E dbErr \in dbErrs : ConsumerList(r, dbErr)
    \/ \E dbErr \in dbErrs : ConsumerEval(r, dbErr)
    \/ ConsumerUpdate(r)
    \/ ConsumerDefer(r)

(***************************************************************************)
(* Spec: the run controller and the replay pipeline; the ledger is changed *)
(* by the pipelines only                                                   *)
(***************************************************************************)
Next ==
    \/ HandleStartSimulation(RunUsers, RunSpeeds, LoadInputs, MaxRuns)
    \/ HandleGetStatus
    \/ HandleStopSimulation
    \/ \E r \in Runs : Producer(r)
    \/ \E r \in Runs : Consumer(r, BOOLEAN)

Spec == Init /\ [][Next]_vars

(***************************************************************************)
(* SpecLedger: at most MaxLedgerRuns runs, next to reset and manual        *)
(* trigger requests of both tenants                                        *)
(***************************************************************************)
NextLedger ==
    \/ HandleStartSimulation(LedgerUsers, RunSpeeds, LoadInputs, MaxLedgerRuns)
    \/ HandleStopSimulation
    \/ \E q \in ResetInputs : HandleResetAlerts(q.user_id, q.dbErr)
    \/ \E q \in ManualInputs :
          HandleTriggerAlert(q.user_id, q.alert_id, TRUE, q.trigger_price, q.dbErr)
    \/ \E r \in Runs : Producer(r)
    \/ \E r \in Runs : Consumer(r, {FALSE})

SpecLedger == Init /\ [][NextLedger]_vars

(***************************************************************************)
(* SpecStart: Start requests with every user and speed value, and the run  *)
(* of the accepted one                                                     *)
(***************************************************************************)
NextStart ==
    \/ HandleStartSimulation(UserInputs, SpeedInputs, LoadInputs, MaxStartRuns)
    \/ HandleGetStatus
    \/ HandleStopSimulation
    \/ \E r \in Runs : Producer(r)
    \/ \E r \in Runs : Consumer(r, {FALSE})

SpecStart == Init /\ [][NextStart]_vars

(***************************************************************************)
(* SpecLive: the run controller and the replay pipeline under fair         *)
(* scheduling: a goroutine that can take a step eventually takes it, a     *)
(* goroutine waiting for sm.mu eventually gets it, and a handler that      *)
(* holds sm.mu eventually releases it                                      *)
(***************************************************************************)
NextLive ==
    \/ HandleStartSimulation(LiveUsers, RunSpeeds, LiveLoads, MaxRuns)
    \/ HandleStopSimulation
    \/ \E r \in Runs : Producer(r)
    \/ \E r \in Runs : Consumer(r, {FALSE})

\* the steps of runSimulation that wait: for the feed channel or for sm.mu
ConsumerWaits(r) ==
    ConsumerRecv(r) \/ ConsumerCheck(r) \/ ConsumerUpdate(r) \/ ConsumerDefer(r)

\* the listing step can be taken whenever the consumer is at it, so weak
\* fairness of it says that the consumer does not stay at it forever
SpecLive ==
    /\ Init
    /\ [][NextLive]_vars
    /\ WF_vars(\E load \in LiveLoads : StartBody("1", "", load))
    /\ \A r \in Runs : WF_vars(Producer(r))
    /\ \A r \in Runs : SF_vars(ConsumerWaits(r))
    /\ \A r \in Runs : WF_vars(ConsumerEval(r, FALSE))
    /\ \A r \in Runs : []<>(cons[r].pc # "list")

(***************************************************************************)
(* SpecApi: the alert API (create and manual trigger) behind the CORS      *)
(* middleware                                                              *)
(***************************************************************************)
\* the request methods and the wrapped handlers a request can meet
MethodInputs == {"OPTIONS", "GET", "POST", "DELETE"}
NextInputs == { [code |-> 200, body |-> "ok"], [code |-> 404, body |-> "Not found"] }

CallCorsMiddleware ==
    /\ \E method \in MethodInputs, next \in NextInputs :
          call' = [fn |-> "corsMiddleware", args |-> << method, next >>,
                   result |-> corsMiddleware(method, next)]
    /\ resp' = NoResp
    /\ UNCHANGED stateVars

NextApi ==
    \/ \E q \in CreateInputs :
          HandleCreateAlert(q.user_id, q.json, q.commodity_code, q.condition,
                            q.threshold_price, q.dbErr)
    \/ \E q \in ApiTriggerInputs :
          HandleTriggerAlert(q.user_id, q.alert_id, q.json, q.trigger_price, q.dbErr)
    \/ CallCorsMiddleware

SpecApi == Init /\ [][NextApi]_vars

(***************************************************************************)
(* SpecFn: computeRepresentativePrice, the trigger decision and the        *)
(* grouping of load2024Data applied to bounded inputs                      *)
(***************************************************************************)
\* the sequences over S of length at most n
SeqsUpTo(S, n) == UNION {[1..k -> S] : k \in 0..n}

\* rows of one date: a small and a large price (the sum of the two needs one
\* bit more than the significand has), both mostly prices, one mostly price
PriceRows ==
    { Row("2024-01-02", 1, 1, Nil, Nil),
      Row("2024-01-02", Pow2(MantissaBits), Pow2(MantissaBits), Nil, Nil),
      Row("2024-01-02", 20, 24, Some(29), Some(31)),
      Row("2024-01-02", 26, 29, Some(1), Nil),
      Row("2024-01-02", 27, 30, Nil, Some(1)) }

\* rows of three dates, two rows a date, in any order
DateRows ==
    { Row(d, lo, lo + 4, Nil, Nil) : d \in {"2024-01-02", "2024-01-03", "2024-01-04"},
                                    lo \in {20, 30} }

\* the condition values, thresholds and prices of the trigger decision
ConditionInputs == {"above", "below", "equal", ""}
ThresholdInputs == {27, 28}
PriceInputs == {Fl(27, 1), Fl(55, 2), Fl(28, 1), Fl(57, 2), Fl(29, 1)}


CallRepresentativePrice ==
    /\ call = NoCall
    /\ \E rows \in SeqsUpTo(PriceRows, MaxLen) :
          call' = [fn |-> "computeRepresentativePrice", args |-> rows,
                   result |-> computeRepresentativePrice(rows)]
    /\ UNCHANGED stateVars

CallShouldTrigger ==
    /\ call = NoCall
    /\ \E condition \in ConditionInputs, threshold \in ThresholdInputs,
          price \in PriceInputs :
          call' = [fn |-> "shouldTrigger",
                   args |-> [condition |-> condition, threshold |-> threshold,
                             price |-> price],
                   result |-> shouldTrigger(condition, threshold, price)]
    /\ UNCHANGED stateVars

CallLoad2024Data ==
    /\ call = NoCall
    /\ \E rows \in SeqsUpTo(DateRows, MaxLen) :
          call' = [fn |-> "load2024Data", args |-> rows, result |-> load2024Data(rows)]
    /\ UNCHANGED stateVars

NextFn ==
    \/ CallRepresentativePrice
    \/ CallShouldTrigger
    \/ CallLoad2024Data

SpecFn == Init /\ [][NextFn]_vars

(***************************************************************************)
(* Properties                                                              *)
(***************************************************************************)
\* the event log of the current RunState
Events == IF results = NoResults THEN <<>> ELSE results.events

\* a goroutine of run r has been launched and has not returned
Alive(r) == cons[r].pc \notin {"idle", "done"} \/ prod[r].pc \notin {"idle", "done"}

\* the fields of SimulationManager, the pipelines and the ledger
progVars == << smVars, pipeVars, ledgerVars >>

\* C1: a Start that arrives while a run is in progress (sm.running is set, or
\* the status is "running") is answered 409 and leaves the RunState, the
\* running flag, the stop channel, the pipelines and the ledger as they were.
C1_StartWhileRunningRejected ==
    [][((running \/ results.status = "running") /\ resp'.op = "Start") =>
          (resp'.code = 409 /\ UNCHANGED progVars)]_vars

\* C1 witness: a Start was answered 409 in the middle of a run
C1_Witness ==
    /\ resp.op = "Start" /\ resp.code = 409
    /\ running /\ results.status = "running"
    /\ Len(results.events) = 1
    /\ \E r \in Runs : cons[r].pc = "eval"

\* C2: at most one replay pipeline (producer or consumer goroutine) is alive.
C2_OneRunAtATime == Cardinality({r \in Runs : Alive(r)}) <= 1

\* C3: an accepted Stop leaves status "stopped", and a "stopped" status
\* changes only when a later Start is accepted and installs a fresh RunState.
C3_StoppedStaysStopped ==
    [][ /\ (resp'.op = "Stop" /\ resp'.code = 200) => results'.status = "stopped"
        /\ results.status = "stopped" =>
              \/ results'.status = "stopped"
              \/ resp'.op = "Start" /\ resp'.code = 200 /\ results'.status = "running" ]_vars

\* C3 witness: the finalization of the stopped run has run and the status is
\* still "stopped"
C3_Witness ==
    \E r \in Runs : stopCh = r /\ r \in closed /\ cons[r].pc = "done"
                    /\ results.status = "stopped"

\* C4: while the status is "stopped" (a Stop was accepted and no Start since),
\* at most one event has been appended since the Stop.
C4_StopHaltsProgress ==
    results.status = "stopped" => Len(results.events) <= eventsAtStop + 1

\* C5: no alert id is in the triggered_alerts of two entries of the event log.
C5_AtMostOnce ==
    \A i, j \in 1..Len(Events) :
        \A x \in 1..Len(Events[i].triggered_alerts),
           y \in 1..Len(Events[j].triggered_alerts) :
            Events[i].triggered_alerts[x].alert_id = Events[j].triggered_alerts[y].alert_id
                => (i = j /\ x = y)

\* C6: the event log is a prefix of the run's date groups: event i has the
\* date and the row count of group i.
C6_Chronological ==
    results # NoResults =>
        LET groups == run[stopCh].groups
        IN  /\ Len(results.events) <= results.total_dates
            /\ Len(results.events) <= Len(groups)
            /\ \A i \in 1..Len(results.events) :
                  i <= Len(groups) =>
                     /\ results.events[i].date = groups[i].date
                     /\ results.events[i].row_count = Len(groups[i].rows)

\* C7: when a run is "completed", every date group has been processed.
C7_CompletedIsComplete ==
    results.status = "completed" =>
        /\ results.processed_dates = results.total_dates
        /\ results.processed_rows = results.total_rows
        /\ Len(results.events) = results.total_dates

\* the condition of alert id is met by the price num/den: at or above the
\* threshold for "above", at or below it for "below"
Meets(id, price) ==
    \/ alerts[id].condition = "above" /\ price.num >= alerts[id].threshold * price.den
    \/ alerts[id].condition = "below" /\ price.num <= alerts[id].threshold * price.den

\* the position of the first group whose representative price meets the
\* condition of alert id, 0 when there is none
FirstMatch(id, groups) ==
    LET hit == {d \in 1..Len(groups) :
                   Meets(id, computeRepresentativePrice(groups[d].rows))}
    IN  IF hit = {} THEN 0 ELSE CHOOSE d \in hit : \A e \in hit : d <= e

\* the (event, entry) positions at which alert id is recorded as triggered
Recorded(id) ==
    {p \in (1..Len(Events)) \X (1..Len(AllRows) + Len(alerts)) :
        /\ p[2] <= Len(Events[p[1]].triggered_alerts)
        /\ Events[p[1]].triggered_alerts[p[2]].alert_id = id}

\* C8: in a run with no ledger failure and no ledger change from outside the
\* run, an alert that was active at Start is recorded only in the event of
\* the first date whose representative price meets its condition, once, with
\* that price; and when the run has processed every date it is recorded there.
C8_FirstMatchTriggers ==
    (results # NoResults /\ quiet) =>
        LET groups == run[stopCh].groups
        IN  \A id \in activeAtStart :
              /\ \A p \in Recorded(id) :
                    /\ FirstMatch(id, groups) > 0
                    /\ Events[p[1]].date = groups[FirstMatch(id, groups)].date
                    /\ Events[p[1]].triggered_alerts[p[2]].trigger_price =
                          computeRepresentativePrice(groups[FirstMatch(id, groups)].rows)
                    /\ Events[p[1]].representative_price =
                          Events[p[1]].triggered_alerts[p[2]].trigger_price
              /\ Cardinality(Recorded(id)) <= 1
              /\ (cons[stopCh].pc = "done" /\ stopCh \notin closed
                    /\ FirstMatch(id, groups) > 0) => Recorded(id) # {}

\* C8 witness: a completed quiet run recorded alert 3 on the first date and
\* alert 1 on the second, and never alert 6
C8_Witness ==
    /\ results.status = "completed" /\ quiet
    /\ cons[stopCh].pc = "done"
    /\ activeAtStart = {1, 3, 6}
    /\ Recorded(3) = {<<1, 1>>} /\ Recorded(1) = {<<2, 1>>} /\ Recorded(6) = {}

\* C9: a successful Reset returns the number of triggered CORN alerts of the
\* caller's tenant and makes exactly those active; every other alert row is
\* unchanged; a second Reset of the same caller right after returns 0 and
\* changes nothing.
C9_ResetClearsTriggered ==
    [][(resp'.op = "Reset" /\ resp'.code = 200) =>
          LET c == ResolveUser(resp'.req.user_id).clientID
              hit == {i \in 1..Len(alerts) : /\ alerts[i].client_id = c
                                             /\ alerts[i].commodity = "CORN"
                                             /\ alerts[i].status = "triggered"}
          IN  /\ resp'.body.alerts_reset = Cardinality(hit)
              /\ Len(alerts') = Len(alerts)
              /\ \A i \in 1..Len(alerts) :
                    alerts'[i] = IF i \in hit THEN [alerts[i] EXCEPT !.status = "active"]
                                 ELSE alerts[i]
              /\ ListAlerts(alerts', c, "triggered", "CORN") = <<>>
              /\ (resp.op = "Reset" /\ resp.code = 200 /\ resp.req = resp'.req) =>
                    (resp'.body.alerts_reset = 0 /\ alerts' = alerts)
              /\ UNCHANGED << history, smVars, pipeVars >>]_vars

\* C9 witness: a Reset returned 2 after a run had triggered alerts 1 and 3
C9_Witness ==
    /\ resp.op = "Reset" /\ resp.code = 200 /\ resp.body.alerts_reset = 2
    /\ alerts[1].status = "active" /\ alerts[1].triggered_count = 1
    /\ alerts[3].status = "active" /\ alerts[3].triggered_count = 1
    /\ alerts[5].status = "paused" /\ alerts[6].status = "active"

\* C10: a Stop that arrives while sm.running is not set is answered 409 and
\* changes nothing.
C10_StopWhenNotRunningRejected ==
    [][(~running /\ resp'.op = "Stop") =>
          (resp'.code = 409 /\ UNCHANGED progVars)]_vars

\* C10 witness: a second Stop after an accepted Stop was answered 409
C10_Witness ==
    /\ resp.op = "Stop" /\ resp.code = 409
    /\ results.status = "stopped" /\ stopCh \in closed

\* twice the mid price of a row, in exact arithmetic
ExactMid2(row) ==
    IF row.mostly_low # Nil /\ row.mostly_high # Nil
    THEN row.mostly_low[1] + row.mostly_high[1]
    ELSE row.low + row.high

\* twice the sum of the mid prices of the rows, in exact arithmetic
RECURSIVE ExactSum2(_)
ExactSum2(rows) == IF rows = <<>> THEN 0 ELSE ExactMid2(Head(rows)) + ExactSum2(Tail(rows))

Abs(x) == IF x < 0 THEN 0 - x ELSE x

C14_TriggerInclusive ==
    call.fn = "shouldTrigger" =>
        LET a == call.args
        IN  call.result =
               (\/ a.condition = "above" /\ a.price.num >= a.threshold * a.price.den
                \/ a.condition = "below" /\ a.price.num <= a.threshold * a.price.den)

\* C14 witness: an "above" alert at a price equal to its threshold triggers
C14_Witness ==
    /\ call.fn = "shouldTrigger"
    /\ call.args = [condition |-> "above", threshold |-> 28, price |-> [num |-> 28, den |-> 1]]
    /\ call.result = TRUE

\* the position of a date in the calendar
DateIdx(d) == CHOOSE i \in 1..Len(AllDates) : AllDates[i] = d

\* the position of the first row of date d
FirstAt(rows, d) ==
    CHOOSE i \in 1..Len(rows) : rows[i].date = d /\ \A j \in 1..(i - 1) : rows[j].date # d

\* C15: load2024Data emits one group for each distinct date, in the order in
\* which the dates are first seen; for an input sorted by date the groups
\* ascend by date; an empty input gives no group.
C15_FirstSeenOrder ==
    call.fn = "load2024Data" =>
        LET rows == call.args
            groups == call.result.groups
        IN  /\ {groups[i].date : i \in 1..Len(groups)} = {rows[i].date : i \in 1..Len(rows)}
            /\ Len(groups) = Cardinality({rows[i].date : i \in 1..Len(rows)})
            /\ \A i, j \in 1..Len(groups) :
                  i < j => FirstAt(rows, groups[i].date) < FirstAt(rows, groups[j].date)
            /\ (\A i, j \in 1..Len(rows) :
                   i < j => DateIdx(rows[i].date) <= DateIdx(rows[j].date))
                  => \A i, j \in 1..Len(groups) :
                        i < j => DateIdx(groups[i].date) < DateIdx(groups[j].date)
            /\ rows = <<>> => groups = <<>>

\* C15 witness: the dates 01-03, 01-02, 01-02 give the groups 01-03, 01-02
C15_Witness ==
    /\ call.fn = "load2024Data"
    /\ Len(call.args) = 3
    /\ call.args[1].date = "2024-01-03"
    /\ call.args[2].date = "2024-01-02" /\ call.args[3].date = "2024-01-02"
    /\ Len(call.result.groups) = 2
    /\ call.result.groups[1].date = "2024-01-03"
    /\ call.result.groups[2].date = "2024-01-02"

RECURSIVE SumSizes(_)
SumSizes(groups) == IF groups = <<>> THEN 0 ELSE Len(Head(groups).rows) + SumSizes(Tail(groups))

\* C16: the groups partition the input: a group holds exactly the rows of
\* its date, each once and in input order; no group is empty; no date has two
\* groups; every row's date has a group; total_rows is the number of rows and
\* the sum of the group sizes.
C16_GroupingPartitions ==
    call.fn = "load2024Data" =>
        LET rows == call.args
            groups == call.result.groups
        IN  /\ \A i \in 1..Len(groups) :
                  /\ groups[i].rows = SelectSeq(rows, LAMBDA r : r.date = groups[i].date)
                  /\ groups[i].rows # <<>>
            /\ \A i, j \in 1..Len(groups) : groups[i].date = groups[j].date => i = j
            /\ \A k \in 1..Len(rows) : \E i \in 1..Len(groups) : groups[i].date = rows[k].date
            /\ call.result.totalRows = Len(rows)
            /\ call.result.totalRows = SumSizes(groups)

\* C16 witness: the same row twice around a row of another date: the first
\* group keeps both copies
C16_Witness ==
    /\ call.fn = "load2024Data"
    /\ call.args = << Row("2024-01-03", 20, 24, Nil, Nil),
                      Row("2024-01-02", 30, 34, Nil, Nil),
                      Row("2024-01-03", 20, 24, Nil, Nil) >>
    /\ Len(call.result.groups) = 2
    /\ Len(call.result.groups[1].rows) = 2
    /\ call.result.totalRows = 3

\* the rows in the order f
ApplyPerm(rows, f) == [i \in 1..Len(rows) |-> rows[f[i]]]

C18_EffectiveSpeedInRange ==
    /\ \A r \in 1..stopCh : run[r].speedMs >= 10 /\ run[r].speedMs <= 10000
    /\ (resp.op = "Start" /\ resp.code = 200) =>
          /\ resp.body.speed_ms = run[stopCh].speedMs
          /\ resp.body.speed_ms >= 10 /\ resp.body.speed_ms <= 10000

\* C18 witness: a Start with speed=-1 was accepted and its pipeline runs with
\* the delay 500
C18_Witness ==
    /\ resp.op = "Start" /\ resp.code = 200
    /\ resp.req.speed = "-1"
    /\ stopCh = 1 /\ run[1].speedMs = 500 /\ prod[1].pc = "send"

\* C11: a Start answered 400, 500 or 404 leaves the RunState, the running
\* flag, the stop signal, the pipelines and the ledger as they were and
\* leaves the lock free.
C11_FailedStartChangesNothing ==
    [][(resp'.op = "Start" /\ resp'.code \in {400, 500, 404}) =>
          /\ mu' = "free"
          /\ UNCHANGED << running, stopCh, closed, results, pipeVars, ledgerVars >>]_vars

\* C11 witness: a Start failed on the dataset load after a run had completed,
\* and the completed RunState with its events is still there
C11_Witness ==
    /\ resp.op = "Start" /\ resp.code = 500
    /\ mu = "free"
    /\ results # NoResults /\ results.status = "completed"
    /\ Len(results.events) = NumDates

\* the rows and the triggered alerts counted over a list of events
RECURSIVE SumRowCount(_)
SumRowCount(events) ==
    IF events = <<>> THEN 0
    ELSE events[1].row_count + SumRowCount(Tail(events))

RECURSIVE SumTriggered(_)
SumTriggered(events) ==
    IF events = <<>> THEN 0
    ELSE Len(events[1].triggered_alerts) + SumTriggered(Tail(events))

\* a RunState in which every per-date update is applied as a whole
WholeUpdates(rs) ==
    /\ rs.processed_dates = Len(rs.events)
    /\ rs.processed_rows = SumRowCount(rs.events)
    /\ rs.alerts_triggered = SumTriggered(rs.events)
    /\ rs.current_date = IF rs.events = <<>> THEN "" ELSE rs.events[Len(rs.events)].date

\* C12: Status is answered 200 in every state; the answer is the idle marker
\* exactly when no Start was ever accepted and otherwise the RunState of that
\* instant, with every per-date update applied as a whole; Status changes
\* neither the RunState, the running flag, the stop signal, the pipelines nor
\* the ledger.
C12_StatusIsSnapshot ==
    [][resp'.op = "Status" =>
          /\ resp'.code = 200
          /\ (resp'.body = [status |-> "idle"]) <=> (stopCh = 0)
          /\ stopCh > 0 => (resp'.body = results /\ WholeUpdates(resp'.body))
          /\ UNCHANGED progVars]_vars

\* C12 witness: Status returned a running RunState with one date processed
\* while the consumer was evaluating the alerts of the next date
C12_Witness ==
    /\ resp.op = "Status" /\ resp.code = 200
    /\ resp.body.status = "running"
    /\ Len(resp.body.events) = 1
    /\ \E r \in Runs : cons[r].pc = "eval"

\* C20: a Reset is answered by the user and the ledger alone (400 exactly for
\* an unresolvable user, otherwise 200 or the ledger's failure 500, never a
\* refusal for the run state), and it leaves the RunState, the running flag,
\* the stop signal, the lock and the pipelines as they were.
C20_ResetIndependentOfRun ==
    [][resp'.op = "Reset" =>
          /\ resp'.code \in {200, 400, 500}
          /\ (resp'.code = 400) <=> ~ResolveUser(resp'.req.user_id).ok
          /\ UNCHANGED << smVars, pipeVars >>]_vars

\* C20 witness: a Reset put alerts back to active while a run was running
\* and its consumer was in the middle of a date
C20_Witness ==
    /\ resp.op = "Reset" /\ resp.code = 200
    /\ resp.body.alerts_reset >= 1
    /\ running /\ results.status = "running"
    /\ \E r \in Runs : cons[r].pc \in {"list", "eval", "update"}

\* C23: the per-date update and the finalizer of run r act on the RunState
\* and the running flag only while they are those of run r (no later Start
\* has replaced them), and the producer of run r blocks only on the stop
\* channel of run r.
C23_RunIsolation ==
    [][\A r \in Runs :
          /\ (cons[r].pc \in {"update", "defer"} /\ cons'[r].pc # cons[r].pc) => r = stopCh
          /\ prod'[r].ch \in {0, r}]_vars

\* C24: the status changes only from nil or a terminal status to running by
\* an accepted Start, from running to completed by the finalizer of a
\* pipeline, and from running to stopped by an accepted Stop; a Start is
\* accepted only when the status is not running.
C24_StatusStateMachine ==
    [][/\ (resp'.op = "Start" /\ resp'.code = 200) =>
              (results.status # "running" /\ results'.status = "running")
       /\ results'.status # results.status =>
              \/ /\ results'.status = "running"
                 /\ resp'.op = "Start" /\ resp'.code = 200
              \/ /\ results.status = "running" /\ results'.status = "completed"
                 /\ \E r \in Runs : cons[r].pc = "defer" /\ cons'[r].pc = "done"
              \/ /\ results.status = "running" /\ results'.status = "stopped"
                 /\ resp'.op = "Stop" /\ resp'.code = 200]_vars

\* C24 witness: a second run was accepted after the first had completed, and
\* was then stopped
C24_Witness ==
    /\ stopCh = 2 /\ closed = {2}
    /\ results.status = "stopped"
    /\ cons[1].pc = "done"

\* C25: a completed RunState changes only by an accepted Start, and while the
\* status is completed no consumer is still between receiving a group and
\* recording its event.
C25_CompletedIsFinal ==
    [][results.status = "completed" =>
          /\ (results' # results => (resp'.op = "Start" /\ resp'.code = 200))
          /\ \A r \in Runs : cons[r].pc \notin {"check", "list", "eval", "update"}]_vars

\* C26: in every state the counters of the RunState agree with its event
\* log: processed_dates is the number of events, processed_rows the sum of
\* their row counts, alerts_triggered the number of their triggered alerts
\* and current_date the date of the last event.
C26_CountersMatchEvents ==
    results # NoResults => WholeUpdates(results)

\* C26 witness: a running RunState with one date recorded, rows counted and
\* an alert triggered
C26_Witness ==
    /\ results # NoResults /\ results.status = "running"
    /\ results.processed_dates = 1
    /\ results.processed_rows >= 1
    /\ results.alerts_triggered >= 1

\* C27: every iteration of the alert loop goes on to the next listed alert
\* (or, after the last one, to the recording of the event) whether or not
\* the transition failed; the triggered list grows by exactly the alert of
\* the iteration when its transition changed the ledger, and only an alert
\* whose condition the price meets is triggered.
C27_FailedTriggerSkipsOneAlert ==
    [][\A r \in Runs :
          (cons[r].pc = "eval" /\ cons'[r] # cons[r]) =>
             LET k == cons[r].k
                 a == cons[r].alerts[k]
                 price == cons[r].event.representative_price
                 succeeded == alerts'[a.id] # alerts[a.id]
             IN  /\ IF k = Len(cons[r].alerts)
                    THEN cons'[r].pc = "update"
                    ELSE /\ cons'[r].pc = "eval"
                         /\ cons'[r].k = k + 1
                         /\ cons'[r].alerts = cons[r].alerts
                 /\ succeeded => Meets(a.id, price)
                 /\ succeeded => alerts'[a.id].status = "triggered"
                 /\ cons'[r].event.triggered_alerts =
                       IF succeeded
                       THEN Append(cons[r].event.triggered_alerts,
                                   [alert_id |-> a.id, condition |-> a.condition,
                                    threshold_price |-> a.threshold,
                                    trigger_price |-> price])
                       ELSE cons[r].event.triggered_alerts]_vars

\* C27 witness: on the second date the transition of alert 3 failed and alert
\* 1, evaluated after it, was triggered and is the only entry of the list
C27_Witness ==
    \E r \in Runs :
        /\ cons[r].pc = "update"
        /\ cons[r].group.date = AllDates[2]
        /\ Meets(3, cons[r].event.representative_price)
        /\ alerts[3].status = "active"
        /\ alerts[1].status = "triggered"
        /\ Len(cons[r].event.triggered_alerts) = 1
        /\ cons[r].event.triggered_alerts[1].alert_id = 1

\* C28: the listing step never ends the run: it leaves the event of the date
\* with its representative price, its row count and no triggered alert, and
\* changes neither the ledger nor the RunState; after a failed listing the
\* consumer records that event, advances the counters by one date and the
\* rows of the date, triggers nothing, and waits for the next date.
C28_ListFailureKeepsRun ==
    [][\A r \in Runs :
          /\ (cons[r].pc = "list" /\ cons'[r] # cons[r]) =>
                /\ cons'[r].pc \in {"eval", "update"}
                /\ cons'[r].listErr => cons'[r].pc = "update"
                /\ cons'[r].event =
                      [date |-> cons[r].group.date,
                       representative_price |-> computeRepresentativePrice(cons[r].group.rows),
                       row_count |-> Len(cons[r].group.rows),
                       triggered_alerts |-> <<>>]
                /\ UNCHANGED << ledgerVars, smVars >>
          /\ (cons[r].pc = "update" /\ cons[r].listErr /\ cons'[r] # cons[r]) =>
                /\ cons[r].event.triggered_alerts = <<>>
                /\ results'.events = Append(results.events, cons[r].event)
                /\ results'.processed_dates = results.processed_dates + 1
                /\ results'.processed_rows = results.processed_rows + Len(cons[r].group.rows)
                /\ results'.alerts_triggered = results.alerts_triggered
                /\ results'.status = results.status
                /\ cons'[r].pc = "recv"
                /\ UNCHANGED ledgerVars]_vars

\* C28 witness: the listing failed on the second date while alert 1, whose
\* condition the price meets, was active; the first date is recorded and
\* the event of the second date is about to be
C28_Witness ==
    \E r \in Runs :
        /\ cons[r].pc = "update" /\ cons[r].listErr
        /\ cons[r].group.date = AllDates[2]
        /\ Len(results.events) = 1
        /\ alerts[1].status = "active"
        /\ Meets(1, cons[r].event.representative_price)

\* C30: a Stop is answered 200 or 409 and never panics; a stop channel is
\* closed only by a Stop, only when it exists and is not closed yet, and
\* only while a RunState exists; every accepted Start installs a channel
\* that was never used before and is not closed.
C30_StopSignalsOnce ==
    [][/\ resp'.op = "Stop" => resp'.code \in {200, 409}
       /\ closed' # closed =>
             /\ resp'.op = "Stop" /\ resp'.code = 200
             /\ stopCh > 0 /\ stopCh \notin closed
             /\ results # NoResults
             /\ closed' = closed \cup {stopCh}
       /\ (resp'.op = "Start" /\ resp'.code = 200) =>
             /\ stopCh' = stopCh + 1
             /\ \A c \in closed' : c < stopCh']_vars

\* C30 witness: two runs were started and each was stopped by its own Stop
C30_Witness ==
    /\ resp.op = "Stop" /\ resp.code = 200
    /\ stopCh = 2 /\ closed = {1, 2}
    /\ ~running

\* the producer of run r is blocked in the hand-off for ever: the feed
\* channel is full and its consumer has returned, and the stop channel it
\* waits on is not closed and can no longer be closed, because a Stop closes
\* only the channel of the latest Start and only while sm.running is set,
\* and sm.running is set again only by a Start that installs a new channel
BlockedForEver(r) ==
    /\ prod[r].pc = "send"
    /\ prod[r].ch # 0 /\ prod[r].ch \notin closed
    /\ prod[r].ch < stopCh \/ ~running
    /\ Len(feedCh[r].buf) >= 1
    /\ cons[r].pc = "done"

\* C29: once the stop channel of run r has been closed by a Stop, the
\* producer and the consumer of run r eventually return; so in no state is
\* a task of a stopped run blocked for ever.
C29_StoppedRunTerminates ==
    \A r \in Runs : r \in closed => ~BlockedForEver(r)

\* C21: validation precedes the ledger.  A create-alert request of a known
\* user whose body is not JSON, whose condition is neither above nor below,
\* whose threshold is not positive or whose commodity code is empty, and a
\* manual trigger request whose body is not JSON or whose trigger price is
\* not positive, is answered 400 and leaves alerts and history as they were,
\* whether or not the ledger would have failed; and every alert a step adds
\* has a condition in {above, below} and a threshold above zero.
C21_ValidationPrecedesLedger ==
    [][ /\ ( /\ resp'.op = "Create"
             /\ ResolveUser(resp'.req.user_id).ok
             /\ \/ ~resp'.req.json
                \/ resp'.req.condition \notin {"above", "below"}
                \/ resp'.req.threshold_price <= 0
                \/ resp'.req.commodity_code = "" )
           => (resp'.code = 400 /\ alerts' = alerts /\ history' = history)
        /\ ( /\ resp'.op = "Trigger"
             /\ ResolveUser(resp'.req.user_id).ok
             /\ \/ ~resp'.req.json
                \/ resp'.req.trigger_price <= 0 )
           => (resp'.code = 400 /\ alerts' = alerts /\ history' = history)
        /\ \A i \in (Len(alerts) + 1)..Len(alerts') :
              /\ alerts'[i].condition \in {"above", "below"}
              /\ alerts'[i].threshold > 0 ]_vars

\* C21 witness: after an alert was created through the API, a create request
\* with a condition that is neither above nor below has been answered 400
C21_Witness ==
    /\ Len(alerts) = Len(SeedAlerts) + 1
    /\ alerts[Len(alerts)].condition \in {"above", "below"}
    /\ resp.op = "Create"
    /\ resp.code = 400
    /\ resp.req.json
    /\ resp.req.condition = "invalid"

\* C22: an OPTIONS request is answered 204 with the three
\* Access-Control-Allow headers and the wrapped handler is not called; a
\* request of any other method gets the same headers and the wrapped handler
\* is called exactly once, its status and body being the response.
C22_CorsPreflight ==
    call.fn = "corsMiddleware" =>
        LET method == call.args[1]
            inner == call.args[2]
            r == call.result
        IN  /\ r.headers.Access_Control_Allow_Origin = "*"
            /\ r.headers.Access_Control_Allow_Headers = "X-User-ID, Content-Type"
            /\ r.headers.Access_Control_Allow_Methods = "GET, POST, OPTIONS"
            /\ method = "OPTIONS" => (r.code = 204 /\ r.calls = 0)
            /\ method # "OPTIONS" =>
                  (r.calls = 1 /\ r.code = inner.code /\ r.body = inner.body)

\* C22 witness: the middleware has answered an OPTIONS request whose wrapped
\* handler would have written 404
C22_Witness ==
    /\ call.fn = "corsMiddleware"
    /\ call.args[1] = "OPTIONS"
    /\ call.args[2].code = 404
    /\ call.result.code = 204

\* C31: lock discipline.  The lock is held for field assignment or snapshot
\* copy only: a step of Start that queries the data source (the users lookup
\* and the dataset load, answered with the request's details) is taken while
\* the lock is free, so that a Status request can be answered at that moment
\* without waiting for the load.
C31_NoIOUnderLock ==
    [][ (resp'.op = "Start" /\ resp'.req # NoReq) => (mu = "free" /\ ENABLED HandleGetStatus)
      ]_vars

\* C32: backpressure.  The feed channel of every run holds at most one
\* pending group in every reachable state: the producer is at most one
\* group ahead of the consumer.
C32_Backpressure ==
    \A r \in Runs : Len(feedCh[r].buf) <= 1

\* C32 witness: the producer of a run is blocked on the hand-off of its
\* second group because the first one is still pending in the feed channel
C32_Witness ==
    \E r \in Runs :
        /\ prod[r].pc = "send"
        /\ prod[r].i = 2
        /\ prod[r].ch # 0
        /\ Len(feedCh[r].buf) = 1
        /\ feedCh[r].buf[1] = run[r].groups[1]

\* C33: no pacing wait after the last group.  The producer is never in the
\* pacing wait after it has handed off the last group of its run: the feed
\* channel is closed straight after the last hand-off.
C33_NoWaitAfterLastGroup ==
    \A r \in Runs :
        ~(prod[r].pc = "wait" /\ prod[r].i = Len(run[r].groups))

\* C34: the check for a run in progress and the transition to running are
\* one atomic step.  A Start that has passed the check holds the lock and the
\* running flag stays false until it sets it; an accepted Start finds the
\* flag false, sets it and launches exactly one pipeline (one producer and
\* one consumer, on a fresh stop channel); and a Start answered straight
\* after an accepted Start is answered 409.
C34_StartIsAtomic ==
    [][ /\ mu' = "start" => ~running'
        /\ (resp'.op = "Start" /\ resp'.code = 200) =>
              /\ mu = "start"
              /\ ~running
              /\ running'
              /\ stopCh' = stopCh + 1
              /\ Cardinality({r \in Runs : cons[r].pc = "idle" /\ cons'[r].pc = "recv"}) = 1
              /\ Cardinality({r \in Runs : prod[r].pc = "idle" /\ prod'[r].pc = "send"}) = 1
              /\ \A r \in Runs : r # stopCh' => (cons'[r] = cons[r] /\ prod'[r] = prod[r])
        /\ (resp.op = "Start" /\ resp.code = 200 /\ resp'.op = "Start") =>
              (resp'.code = 409 /\ UNCHANGED << smVars, pipeVars >>) ]_vars

\* C34 witness: of two Start requests that met while no run was in progress,
\* the first was accepted and the second has been answered 409 before the
\* pipeline of the first took a step
C34_Witness ==
    /\ resp.op = "Start"
    /\ resp.code = 409
    /\ running
    /\ stopCh = 1
    /\ prod[1] = [pc |-> "send", i |-> 1, ch |-> 0]
    /\ cons[1].pc = "recv"
    /\ feedCh[1] = NoFeed
    /\ results.processed_dates = 0

\* C38: whenever the lock is free, the running flag is true exactly when a
\* RunState exists and its status is running; hence a Start is answered 409
\* only when Status would report running, and a Stop is accepted exactly in
\* that case.
C38_RunningIffStatusRunning ==
    [][ /\ mu = "free" => (running <=> (results # NoResults /\ results.status = "running"))
        /\ mu' = "free" => (running' <=> (results' # NoResults /\ results'.status = "running"))
        /\ (resp'.op = "Start" /\ resp'.code = 409) =>
              (results # NoResults /\ results.status = "running")
        /\ resp'.op = "Stop" =>
              (resp'.code = 200 <=> (results # NoResults /\ results.status = "running"))
        /\ (resp'.op = "Stop" /\ resp'.code # 200) => resp'.code = 409 ]_vars

\* C38 witness: the finalizer of an earlier run has cleared the running flag
\* while the pipeline of the latest run is still at work, and a Stop has been
\* answered 409
C38_Witness ==
    /\ mu = "free"
    /\ ~running
    /\ results.status = "completed"
    /\ stopCh = 2
    /\ cons[1].pc = "done"
    /\ cons[2].pc \in {"recv", "check", "list", "eval", "update"}
    /\ resp.op = "Stop"
    /\ resp.code = 409

\* C39: an accepted Start replaces the RunState by a fresh one: status
\* running, all progress counters zero, no current date, no events,
\* total_dates the number of loaded groups (at least 1) and total_rows the
\* number of loaded rows; its answer carries the same two totals, and it is
\* given before any group of the new run has been handed off or processed.
C39_StartInstallsFreshState ==
    [][ (resp'.op = "Start" /\ resp'.code = 200) =>
            LET r == stopCh'
            IN  /\ results'.status = "running"
                /\ results'.processed_dates = 0
                /\ results'.processed_rows = 0
                /\ results'.alerts_triggered = 0
                /\ results'.current_date = ""
                /\ results'.events = <<>>
                /\ results'.total_dates = Len(run'[r].groups)
                /\ results'.total_dates >= 1
                /\ results'.total_rows = SumSizes(run'[r].groups)
                /\ resp'.body.total_dates = results'.total_dates
                /\ resp'.body.total_rows = results'.total_rows
                /\ feedCh'[r] = NoFeed
                /\ prod'[r].i = 1 /\ prod'[r].pc = "send"
                /\ cons'[r].pc = "recv" ]_vars

\* C39 witness: a second Start has been accepted after the first run, which
\* had triggered alerts and recorded events, came to its end
C39_Witness ==
    /\ resp.op = "Start"
    /\ resp.code = 200
    /\ stopCh = 2
    /\ prod[1].pc = "done"
    /\ cons[1].pc = "done"
    /\ history # <<>>
    /\ results.events = <<>>
    /\ results.total_dates = NumDates

\* C36: the trigger transition is all-or-nothing.  A step that adds a
\* triggered audit record changes exactly the alert of that record: its status
\* becomes triggered, its triggered_count grows by exactly 1 and its
\* last_triggered_at is stamped; the record is the only one added and holds
\* the previous status, the actor and the trigger price.  A manual trigger
\* answered 200 is such a step, with the requesting user as actor and the
\* requested price; a trigger of a run is such a step, with the user and the
\* representative price of the run; and a manual trigger answered otherwise,
\* or a step of a run that adds no record, leaves alerts and history exactly
\* as they were.
C36_TriggerAllOrNothing ==
    [][ LET n == Len(history)
            row == history'[n + 1]
            id == row.alert_id
            whole == /\ Len(history') = n + 1
                     /\ SubSeq(history', 1, n) = history
                     /\ row.change_type = "triggered"
                     /\ row.new_status = "triggered"
                     /\ id \in 1..Len(alerts)
                     /\ row.previous_status = alerts[id].status
                     /\ Len(alerts') = Len(alerts)
                     /\ \A i \in 1..Len(alerts) : i # id => alerts'[i] = alerts[i]
                     /\ alerts'[id] = [alerts[id] EXCEPT
                                          !.status = "triggered",
                                          !.triggered_count = alerts[id].triggered_count + 1,
                                          !.last_triggered_at = alerts'[id].last_triggered_at]
                     /\ alerts'[id].last_triggered_at > alerts[id].last_triggered_at
        IN  /\ resp'.op = "Trigger" =>
                 IF resp'.code = 200
                 THEN /\ whole
                      /\ id = resp'.req.alert_id
                      /\ row.changed_by_user_id = ResolveUser(resp'.req.user_id).userID
                      /\ row.trigger_price = [num |-> resp'.req.trigger_price, den |-> 1]
                      /\ resp'.body = alerts'[id]
                 ELSE alerts' = alerts /\ history' = history
            /\ (resp'.op = "" /\ history' # history) =>
                 /\ whole
                 /\ \E r \in Runs :
                       /\ cons[r].pc = "eval"
                       /\ cons'[r] # cons[r]
                       /\ row.changed_by_user_id = run[r].userID
                       /\ row.trigger_price = cons[r].event.representative_price
            /\ (resp'.op = "" /\ history' = history) => alerts' = alerts
            /\ history' # history => resp'.op \in {"Trigger", ""} ]_vars

\* C36 witness: a manual trigger of alert 1 succeeded and a later one, in
\* which the ledger failed, has left the alert and the history as they were
C36_Witness ==
    /\ resp.op = "Trigger"
    /\ resp.code = 500
    /\ resp.req.alert_id = 1
    /\ alerts[1].status = "triggered"
    /\ alerts[1].triggered_count = 1
    /\ Len(history) = 1
    /\ history[1].alert_id = 1
    /\ history[1].previous_status = "active"

\* C37: a run applies the trigger transition only to an alert that is active
\* at the moment of the transition: every triggered audit record written by a
\* step of a run has previous status active, and the alert it is about was
\* active before the step.
C37_RunTriggersActiveOnly ==
    [][ (resp'.op = "" /\ history' # history) =>
            LET row == history'[Len(history')]
            IN  /\ row.previous_status = "active"
                /\ alerts[row.alert_id].status = "active" ]_vars

\* C35: tenant isolation.  A step of a run lists and changes only CORN
\* alerts of the run's tenant, a Reset changes only CORN alerts of the
\* requesting user's tenant and adds no audit record, and a manual trigger
\* changes only an alert of the requesting user's tenant; every audit record
\* added is about an alert the step changed; so the alerts and audit records
\* of every other tenant and commodity are left as they were.  A trigger
\* request for an alert of another tenant is answered 404 and changes nothing.
C35_TenantIsolation ==
    [][ LET changed == {i \in 1..Len(alerts) : alerts'[i] # alerts[i]}
            added == {history'[k].alert_id : k \in (Len(history) + 1)..Len(history')}
            u == ResolveUser(resp'.req.user_id)
        IN  /\ Len(alerts') = Len(alerts)
            /\ SubSeq(history', 1, Len(history)) = history
            /\ added \subseteq changed
            /\ resp'.op = "" =>
                  /\ \A i \in changed :
                        /\ alerts[i].commodity = "CORN"
                        /\ \E r \in Runs : /\ cons'[r] # cons[r]
                                           /\ alerts[i].client_id = run[r].clientID
                  /\ \A r \in Runs : \A k \in 1..Len(cons'[r].alerts) :
                        /\ cons'[r].alerts[k].client_id = run[r].clientID
                        /\ cons'[r].alerts[k].commodity = "CORN"
            /\ resp'.op = "Reset" =>
                  /\ added = {}
                  /\ \A i \in changed : /\ u.ok
                                        /\ alerts[i].client_id = u.clientID
                                        /\ alerts[i].commodity = "CORN"
            /\ resp'.op = "Trigger" =>
                  /\ \A i \in changed : /\ u.ok
                                        /\ alerts[i].client_id = u.clientID
                                        /\ i = resp'.req.alert_id
                  /\ ( /\ u.ok
                       /\ resp'.req.trigger_price > 0
                       /\ resp'.req.alert_id \in 1..Len(alerts)
                       /\ alerts[resp'.req.alert_id].client_id # u.clientID )
                     => (resp'.code = 404 /\ changed = {} /\ added = {})
            /\ resp'.op \in {"Start", "Stop", "Status"} => (changed = {} /\ added = {})
      ]_vars

\* C35 witness: after a run of tenant 1 has triggered alerts and a Reset of
\* tenant 2 has reset its alert, a user of tenant 2 has asked to trigger
\* alert 1 of tenant 1 and has been answered 404
C35_Witness ==
    /\ resp.op = "Trigger"
    /\ resp.code = 404
    /\ resp.req.user_id = "3"
    /\ resp.req.alert_id = 1
    /\ results # NoResults
    /\ results.alerts_triggered > 0
    /\ alerts[4].status = "active"
    /\ alerts[1].client_id = 1

====
